---- MODULE Spec2Model ----
(***************************************************************************)
(* Quagga answer monitor: the content script's QuaggaMonitor (DOM          *)
(* extraction, name matching, debounced rescans, message handling), the    *)
(* background service that stores the last status, and the side panel      *)
(* store that displays it.                                                 *)
(*                                                                         *)
(* A JavaScript string is a sequence of one-character strings.  Capture    *)
(* times (Date.now()) are not part of the model: timestamp, lastUpdated    *)
(* and lastScan are left out of the records.                               *)
(***************************************************************************)
EXTENDS Integers, Sequences, FiniteSets, TLC

VARIABLES
    \* ---- QuaggaMonitor (content script) ----
    observer,          \* "null", "unattached", or the target observed: "table", "body"
    watchedNames,      \* this.watchedNames
    connected,         \* how many MutationObservers of the monitor are observing
    isMonitoring,      \* this.isMonitoring
    throttleTimer,     \* this.throttleTimer: 0 (null) or a timeout id
    lastScanResults,   \* this.lastScanResults
    memoryCleanupTimer,\* this.memoryCleanupTimer is set
    csPc,              \* position of initialize(): "new", "loading", "ready", "failed"
    csLoad,            \* the GET_SETTINGS request of loadSettings in flight
    timeouts,          \* armed window.setTimeout callbacks: id -> captured batch
    nextTimeoutId,     \* the id the next window.setTimeout returns
    \* ---- the page ----
    dom,
    \* ---- chrome.runtime messages the background's listener has not handled yet ----
    bgInbox,
    \* ---- history of the debounce window and of the stop/start commands ----
    window,            \* the batches delivered since the timer last fired: relevant, active
    stopped,           \* STOP_MONITORING handled and no START_MONITORING since
    fired,             \* the last firing of the debounce timer: window, flag, messages
    \* ---- BackgroundService ----
    currentState,      \* this.currentState
    storedState,       \* chrome.storage.local[quagga_monitor_state]
    settings,          \* the watchedNames of chrome.storage.local[quagga_settings]
    csInbox,           \* GET_SETTINGS replies and UPDATE_SETTINGS in flight to the tab
    bgStop,            \* handleStopMonitoring: "idle", "sent" (awaits the tab), "done"
    \* ---- side panel (AppStore / MessagingService) ----
    panelPc,           \* "closed", "loading" (initialize awaits), "ready"
    panelState,        \* appState.monitorState
    panelReply,        \* the side panel's GET_STATUS: none, requested, or the reply in flight
    panelInbox,        \* STATUS_UPDATE broadcasts in flight to the side panel
    \* ---- options page (OptionsStore) ----
    optionsCalls,      \* the updateWatchedName calls of a bulk action: id, updates, progress
    \* ---- side panel (MessagingService) ----
    messaging,         \* messageId, pendingMessages, live timeouts, callbacks due, settlements
    \* ---- arguments and result of a function applied on its own ----
    fnIn,
    fnOut

vars == << observer, connected, watchedNames, isMonitoring, throttleTimer, lastScanResults,
           memoryCleanupTimer, csPc, csLoad, timeouts, nextTimeoutId, dom, bgInbox,
           window, stopped, fired, currentState, storedState, settings, csInbox, bgStop,
           panelPc, panelState, panelReply, panelInbox, optionsCalls, messaging,
           fnIn, fnOut >>

monitorVars == << observer, connected, watchedNames, isMonitoring, throttleTimer, lastScanResults,
                  memoryCleanupTimer, csPc, csLoad, timeouts, nextTimeoutId, bgInbox,
                  window, stopped, fired >>
backgroundVars == << currentState, storedState, settings, csInbox, bgStop >>
panelVars == << panelPc, panelState, panelReply, panelInbox >>
pageVars == << optionsCalls, messaging >>
fnVars == << fnIn, fnOut >>

----------------------------------------------------------------------------
(* Bounds of the model *)

\* longest name handed to checkNameMatch on its own
MaxNameLen == 3
\* longest rule name of a scanned watchlist
MaxRuleNameLen == 1
\* longest rule name and most rules when the two strategies are compared
MaxStrategyNameLen == 2
MaxStrategyRules == 1
\* longest text content of a row's name element
MaxRowTextLen == 1
\* most rules of a watchlist
MaxRules == 2
\* most rows of the table that carry a name element or a style of their own
MaxRows == 2
MaxExtractRows == 3
MaxNodes == 2
MaxHistoryRows == 11
MaxBatch == 12
MaxMixedBatch == 3
\* a step of the content script sends while fewer messages than this wait
\* for the background's listener
MaxBgInbox == 1
\* most window.setTimeout calls of one run
MaxTimeouts == 3
\* most startMonitoring calls awaiting their settings at once
MaxLoads == 1
\* a step of the content script sends while fewer broadcasts than this are
\* in flight to the side panel
MaxPanelInbox == 1
\* messages in flight to the tab at a time
MaxCsInbox == 2
\* most rules of the list the options page shows
MaxBulkRules == 3
\* most requests of the side panel's MessagingService
MaxMessages == 3
\* most rules of the settings handed to the validators
MaxSettingsRules == 2

(* Program constants *)

EFFICIENT_SEARCH_THRESHOLD == 50
MAX_SCAN_HISTORY == 10

----------------------------------------------------------------------------
(* Strings *)

Chars == {"a", "A", "b", " "}
ScanChars == {"a", "A", " "}

\* all strings over cs of length at most n
Strings(cs, n) == UNION {[1..k -> cs] : k \in 0..n}

IsSpace(c) == c = " "

\* String.prototype.trim
RECURSIVE TrimStart(_)
TrimStart(s) ==
    IF s = << >> THEN << >>
    ELSE IF IsSpace(Head(s)) THEN TrimStart(Tail(s)) ELSE s

RECURSIVE TrimEnd(_)
TrimEnd(s) ==
    IF s = << >> THEN << >>
    ELSE IF IsSpace(s[Len(s)]) THEN TrimEnd(SubSeq(s, 1, Len(s) - 1)) ELSE s

trim(s) == TrimEnd(TrimStart(s))

\* String.prototype.toLowerCase
LowerChar(c) == IF c = "A" THEN "a" ELSE IF c = "B" THEN "b" ELSE c
toLowerCase(s) == [i \in 1..Len(s) |-> LowerChar(s[i])]

\* String.prototype.includes
includes(s, t) ==
    \E i \in 0..(Len(s) - Len(t)) : SubSeq(s, i + 1, i + Len(t)) = t

----------------------------------------------------------------------------
(* NameMatcher *)

Rule(id, name, exactMatch, enabled) ==
    [id |-> id, name |-> name, exactMatch |-> exactMatch, enabled |-> enabled]

\* checkNameMatch with the rule's name compared as given, not trimmed
checkNameMatch_NoRuleTrim(extractedName, watchedName) ==
    IF ~watchedName.enabled THEN FALSE
    ELSE LET targetName == watchedName.name
             sourceName == trim(extractedName)
         IN  IF watchedName.exactMatch
             THEN sourceName = targetName
             ELSE includes(toLowerCase(sourceName), toLowerCase(targetName))

\* checkNameMatch with the substring test in the wrong direction
checkNameMatch_Reversed(extractedName, watchedName) ==
    IF ~watchedName.enabled THEN FALSE
    ELSE LET targetName == trim(watchedName.name)
             sourceName == trim(extractedName)
         IN  IF watchedName.exactMatch
             THEN sourceName = targetName
             ELSE includes(toLowerCase(targetName), toLowerCase(sourceName))

checkNameMatch_IgnoreEnabled(extractedName, watchedName) ==
    LET targetName == trim(watchedName.name)
        sourceName == trim(extractedName)
    IN  IF watchedName.exactMatch
        THEN sourceName = targetName
        ELSE includes(toLowerCase(sourceName), toLowerCase(targetName))

checkNameMatch(extractedName, watchedName) ==
    IF ~watchedName.enabled THEN FALSE
    ELSE LET targetName == trim(watchedName.name)
             sourceName == trim(extractedName)
         IN  IF watchedName.exactMatch
             THEN sourceName = targetName
             ELSE includes(toLowerCase(sourceName), toLowerCase(targetName))

----------------------------------------------------------------------------
(* StatusClassifier *)

\* backgroundColor is the text of the computed background colour, a string.
Digits == {"0", "1", "2", "3", "4", "5", "6", "7", "8", "9"}

DigitValue(c) ==
    CASE c = "0" -> 0 [] c = "1" -> 1 [] c = "2" -> 2 [] c = "3" -> 3 [] c = "4" -> 4
      [] c = "5" -> 5 [] c = "6" -> 6 [] c = "7" -> 7 [] c = "8" -> 8 [] c = "9" -> 9

\* Number(text) of a run of decimal digits
RECURSIVE Number(_)
Number(text) ==
    IF text = << >> THEN 0
    ELSE 10 * Number(SubSeq(text, 1, Len(text) - 1)) + DigitValue(text[Len(text)])

\* The tokens of /rgb\((\d+),\s*(\d+),\s*(\d+)\)/: a character, the group
\* (\d+), or \s*
Char(c) == [kind |-> "char", c |-> c]
RgbPattern ==
    << Char("r"), Char("g"), Char("b"), Char("("), [kind |-> "digits"], Char(","),
       [kind |-> "spaces"], [kind |-> "digits"], Char(","), [kind |-> "spaces"],
       [kind |-> "digits"], Char(")") >>

\* The regular expression engine on s: the attempt that began at position start
\* stands at position i with the tokens left, the digits of the group being
\* read and the groups read; a failed attempt is followed by one that begins
\* at the next position. The result is the leftmost match's groups, or null.
RECURSIVE Match(_, _, _, _, _, _, _)
Match(s, start, i, tokens, digits, groups, pattern) ==
    IF tokens = << >> THEN [matched |-> TRUE, groups |-> groups]
    ELSE IF Head(tokens).kind = "char" /\ i <= Len(s) /\ s[i] = Head(tokens).c
    THEN Match(s, start, i + 1, Tail(tokens), digits, groups, pattern)
    ELSE IF Head(tokens).kind = "digits" /\ i <= Len(s) /\ s[i] \in Digits
    THEN Match(s, start, i + 1, tokens, Append(digits, s[i]), groups, pattern)
    ELSE IF Head(tokens).kind = "digits" /\ digits # << >>
    THEN Match(s, start, i, Tail(tokens), << >>, Append(groups, digits), pattern)
    ELSE IF Head(tokens).kind = "spaces" /\ i <= Len(s) /\ s[i] = " "
    THEN Match(s, start, i + 1, tokens, digits, groups, pattern)
    ELSE IF Head(tokens).kind = "spaces"
    THEN Match(s, start, i, Tail(tokens), digits, groups, pattern)
    ELSE IF start >= Len(s) THEN [matched |-> FALSE, groups |-> << >>]
    ELSE Match(s, start + 1, start + 1, pattern, << >>, << >>, pattern)

\* backgroundColor.match(/rgb\((\d+),\s*(\d+),\s*(\d+)\)/)
match(s) == Match(s, 1, 1, RgbPattern, << >>, << >>, RgbPattern)

\* isWhiteBackground after the match: the channels compared with 240, or the
\* text compared with the colour names
whiteByMatch(rgbMatch, backgroundColor) ==
    IF rgbMatch.matched
    THEN \A k \in 1..3 : Number(rgbMatch.groups[k]) >= 240
    ELSE \/ backgroundColor = << "w", "h", "i", "t", "e" >>
         \/ backgroundColor = << "r", "g", "b", "(", "2", "5", "5", ",", " ", "2", "5", "5", ",", " ", "2", "5", "5", ")" >>

isWhiteBackground(backgroundColor) == whiteByMatch(match(backgroundColor), backgroundColor)

\* "rgb(255, 255, 255)" and "rgb(200, 200, 200)"
White == << "r", "g", "b", "(", "2", "5", "5", ",", " ", "2", "5", "5", ",", " ", "2", "5", "5", ")" >>
Gray == << "r", "g", "b", "(", "2", "0", "0", ",", " ", "2", "0", "0", ",", " ", "2", "0", "0", ")" >>
BgSamples == {White, Gray}

----------------------------------------------------------------------------
(* The page and the Extractor *)

\* A row element (._right_1treo_151): whether it has a name element
\* (._name_1treo_160), that element's textContent, the row's computed
\* background colour, and whether reading its computed style throws.
Row(nameEl, text, bg, styleThrows) ==
    [nameEl |-> nameEl, text |-> text, bg |-> bg, styleThrows |-> styleThrows]

BlankRow == Row(FALSE, << >>, Gray, FALSE)

\* The document: whether .ui-empty-state is present, whether the rows table
\* (._rights-table_1treo_151) is present, the table's row elements (rows, followed
\* by pad rows without a name element), and whether document.querySelector throws.
Dom(emptyState, table, rows, pad, apiThrows) ==
    [emptyState |-> emptyState, table |-> table, rows |-> rows, pad |-> pad,
     apiThrows |-> apiThrows]

\* rightsTable.querySelectorAll('._right_1treo_151')
rightElements(d) == d.rows \o [i \in 1..d.pad |-> BlankRow]

Null == [kind |-> "null"]
Thrown == [kind |-> "throw"]
Data(name, hasRight) == [kind |-> "data", name |-> name, hasRight |-> hasRight]
Entry(o) == [name |-> o.name, hasRight |-> o.hasRight]

extractSingleElement_KeepsBlankName(rightElement) ==
    IF ~rightElement.nameEl THEN [kind |-> "null"]
    ELSE IF rightElement.styleThrows THEN [kind |-> "throw"]
    ELSE [kind |-> "data", name |-> trim(rightElement.text),
          hasRight |-> isWhiteBackground(rightElement.bg)]

extractSingleElement(rightElement) ==
    IF ~rightElement.nameEl THEN Null
    ELSE LET name == trim(rightElement.text)
         IN  IF name = << >> THEN Null
             ELSE IF rightElement.styleThrows THEN Thrown
             ELSE Data(name, isWhiteBackground(rightElement.bg))

\* Error categories of handleError
InitError == "InitError"                \* '初期化エラー'
StorageError == "StorageError"          \* 'ストレージエラー'
MessagingError == "MessagingError"      \* 'メッセージングエラー'
DomExtractError == "DomExtractError"    \* 'DOM抽出エラー'
DomRowError == "DomRowError"            \* 'DOM処理エラー'
ScanError == "ScanError"                \* 'スキャンエラー'

\* isCriticalError that takes every category as critical
isCriticalError_EveryCategory(category) ==
    category \in {InitError, StorageError, MessagingError, DomExtractError, DomRowError,
                  ScanError}

isCriticalError(category) == category \in {InitError, StorageError, MessagingError}

\* handleError on each category in turn: isMonitoring after it
handleError(monitoring, categories) ==
    monitoring /\ \A i \in 1..Len(categories) : ~isCriticalError(categories[i])

\* The linear strategy: the entries pushed to results, and the categories
\* handed to handleError, in order.
RECURSIVE extractWithNormalSearch(_)
extractWithNormalSearch(elements) ==
    IF elements = << >> THEN [results |-> << >>, errors |-> << >>]
    ELSE LET o == extractSingleElement(Head(elements))
             rest == extractWithNormalSearch(Tail(elements))
         IN  CASE o.kind = "data" ->
                    [results |-> << Entry(o) >> \o rest.results, errors |-> rest.errors]
               [] o.kind = "throw" ->
                    [results |-> rest.results, errors |-> << DomRowError >> \o rest.errors]
               [] OTHER -> rest

enabledRules(names) == SelectSeq(names, LAMBDA wn : wn.enabled)

\* new Set(watchedNames.filter(enabled).map(exactMatch ? name : name.toLowerCase()))
watchedNameSet(names) ==
    {IF names[i].exactMatch THEN names[i].name ELSE toLowerCase(names[i].name) :
        i \in {j \in 1..Len(names) : names[j].enabled}}

\* watchedNames.filter(enabled && !exactMatch).map(name.toLowerCase())
partialMatchNames(names) ==
    {toLowerCase(names[i].name) :
        i \in {j \in 1..Len(names) : names[j].enabled /\ ~names[j].exactMatch}}

isNameMatchedEfficient(name, exactMatchSet, partialNames) ==
    \/ name \in exactMatchSet
    \/ toLowerCase(name) \in exactMatchSet
    \/ \E partialName \in partialNames : includes(toLowerCase(name), partialName)

RECURSIVE EfficientLoop(_, _, _)
EfficientLoop(elements, exactMatchSet, partialNames) ==
    IF elements = << >> THEN << >>
    ELSE LET el == Head(elements)
             rest == EfficientLoop(Tail(elements), exactMatchSet, partialNames)
             name == trim(el.text)
         IN  IF ~el.nameEl \/ name = << >> THEN rest
             ELSE IF ~isNameMatchedEfficient(name, exactMatchSet, partialNames) THEN rest
             ELSE LET o == extractSingleElement(el)
                  IN  IF o.kind = "data" THEN << Entry(o) >> \o rest ELSE rest

\* The indexed strategy: per-row errors are only logged.
extractWithEfficientSearch(elements, names) ==
    IF Len(names) = 0 THEN [results |-> << >>, errors |-> << >>]
    ELSE [results |-> EfficientLoop(elements, watchedNameSet(names), partialMatchNames(names)),
          errors |-> << >>]

\* the indexed strategy chosen from the threshold on
useEfficientSearch_FromThreshold(elements) == Len(elements) >= EFFICIENT_SEARCH_THRESHOLD

useEfficientSearch(elements) == Len(elements) > EFFICIENT_SEARCH_THRESHOLD

extractAnswerRights_IgnoresEmptyState(d, names) ==
    IF d.apiThrows
    THEN [results |-> << >>, errors |-> << DomExtractError >>, cached |-> FALSE]
    ELSE IF ~d.table
    THEN [results |-> << >>, errors |-> << >>, cached |-> FALSE]
    ELSE LET elements == rightElements(d)
             r == IF useEfficientSearch(elements)
                  THEN extractWithEfficientSearch(elements, names)
                  ELSE extractWithNormalSearch(elements)
         IN  [results |-> r.results, errors |-> r.errors, cached |-> TRUE]

extractAnswerRights_ThrowAborts(d, names) ==
    IF d.apiThrows
    THEN [results |-> << >>, errors |-> << DomExtractError >>, cached |-> FALSE]
    ELSE IF d.emptyState \/ ~d.table
    THEN [results |-> << >>, errors |-> << >>, cached |-> FALSE]
    ELSE LET elements == rightElements(d)
             r == IF useEfficientSearch(elements)
                  THEN extractWithEfficientSearch(elements, names)
                  ELSE extractWithNormalSearch(elements)
         IN  IF r.errors # << >>
             THEN [results |-> << >>, errors |-> << DomExtractError >>, cached |-> FALSE]
             ELSE [results |-> r.results, errors |-> r.errors, cached |-> TRUE]

\* extractAnswerRights: the returned results, the categories handed to
\* handleError, and whether the results were cached in lastScanResults.
extractAnswerRights(d, names) ==
    IF d.apiThrows
    THEN [results |-> << >>, errors |-> << DomExtractError >>, cached |-> FALSE]
    ELSE IF d.emptyState \/ ~d.table
    THEN [results |-> << >>, errors |-> << >>, cached |-> FALSE]
    ELSE LET elements == rightElements(d)
             r == IF useEfficientSearch(elements)
                  THEN extractWithEfficientSearch(elements, names)
                  ELSE extractWithNormalSearch(elements)
         IN  [results |-> r.results, errors |-> r.errors, cached |-> TRUE]

----------------------------------------------------------------------------
(* MonitorEngine: matching *)

Status(id, matchedName, hasRight, found) ==
    [watchedNameId |-> id, matchedName |-> matchedName, hasRight |-> hasRight,
     found |-> found]

\* find taking the last matching entry
find_Last(extractedData, watchedName) ==
    LET hits == {i \in 1..Len(extractedData) :
                    checkNameMatch(extractedData[i].name, watchedName)}
    IN  IF hits = {} THEN 0 ELSE CHOOSE i \in hits : \A j \in hits : i >= j

\* extractedData.find(data => checkNameMatch(data.name, watchedName)): its index, 0 if none
find(extractedData, watchedName) ==
    LET hits == {i \in 1..Len(extractedData) :
                    checkNameMatch(extractedData[i].name, watchedName)}
    IN  IF hits = {} THEN 0 ELSE CHOOSE i \in hits : \A j \in hits : i <= j

\* statusFor whose record for a rule without match keeps hasRight set
statusFor_NotFoundHasRight(extractedData, watchedName) ==
    LET k == find(extractedData, watchedName)
    IN  IF k # 0
        THEN Status(watchedName.id, extractedData[k].name, extractedData[k].hasRight, TRUE)
        ELSE Status(watchedName.id, << >>, TRUE, FALSE)

statusFor(extractedData, watchedName) ==
    LET k == find(extractedData, watchedName)
    IN  IF k # 0
        THEN Status(watchedName.id, extractedData[k].name, extractedData[k].hasRight, TRUE)
        ELSE Status(watchedName.id, << >>, FALSE, FALSE)

\* processExtractedData that emits a record for disabled rules too
processExtractedData_AllRules(extractedData, names) ==
    [i \in 1..Len(names) |-> statusFor(extractedData, names[i])]

processExtractedData(extractedData, names) ==
    LET en == enabledRules(names)
    IN  [i \in 1..Len(en) |-> statusFor(extractedData, en[i])]

----------------------------------------------------------------------------
(* ChangeFilter *)

relevantClasses ==
    {"_rights-table_1treo_151", "_right_1treo_151", "_name_1treo_160", "ui-empty-state"}

\* A node of a mutation record: whether it is an element, the classes it carries,
\* and the classes its descendants carry.
Node(element, classes, inner) ==
    [element |-> element, classes |-> classes, inner |-> inner]

Mutation(type, addedNodes, removedNodes, target) ==
    [type |-> type, addedNodes |-> addedNodes, removedNodes |-> removedNodes,
     target |-> target]

checkNodes(nodes) ==
    \E i \in 1..Len(nodes) :
        /\ nodes[i].element
        /\ \/ nodes[i].classes \cap relevantClasses # {}
           \/ nodes[i].inner \cap relevantClasses # {}

isRelevantChange_AddedOnly(mutation) ==
    IF mutation.type = "childList"
    THEN checkNodes(mutation.addedNodes)
    ELSE IF mutation.type = "attributes" /\ mutation.target.element
    THEN mutation.target.classes \cap relevantClasses # {}
    ELSE FALSE

isRelevantChange(mutation) ==
    IF mutation.type = "childList"
    THEN checkNodes(mutation.addedNodes) \/ checkNodes(mutation.removedNodes)
    ELSE IF mutation.type = "attributes" /\ mutation.target.element
    THEN mutation.target.classes \cap relevantClasses # {}
    ELSE FALSE

\* the loop of analyzeMutations from mutation i on
RECURSIVE AnalyzeFrom(_, _, _, _, _)
AnalyzeFrom(mutations, i, hasRelevantChange, changeType, relevantChangeCount) ==
    IF i > Len(mutations)
    THEN [shouldRescan |-> hasRelevantChange, changeType |-> changeType]
    ELSE IF ~isRelevantChange(mutations[i])
    THEN AnalyzeFrom(mutations, i + 1, hasRelevantChange, changeType, relevantChangeCount)
    ELSE IF relevantChangeCount + 1 > 10
    THEN [shouldRescan |-> TRUE, changeType |-> "bulk"]
    ELSE AnalyzeFrom(mutations, i + 1, TRUE,
                     IF mutations[i].type = "childList" THEN "structure"
                     ELSE IF mutations[i].type = "attributes" THEN "style"
                     ELSE changeType,
                     relevantChangeCount + 1)

\* analyzeMutations that asks for no rescan after the early exit of a bulk change
analyzeMutations_BulkNoRescan(mutations) ==
    [shouldRescan |-> /\ AnalyzeFrom(mutations, 1, FALSE, "none", 0).shouldRescan
                      /\ AnalyzeFrom(mutations, 1, FALSE, "none", 0).changeType # "bulk",
     changeType |-> AnalyzeFrom(mutations, 1, FALSE, "none", 0).changeType]

analyzeMutations(mutations) == AnalyzeFrom(mutations, 1, FALSE, "none", 0)

----------------------------------------------------------------------------
(* MonitorEngine: a scan and its messages *)

ErrorMsg(category) == [type |-> "ERROR", category |-> category]
StatusMsg(statuses, isActive) ==
    [type |-> "STATUS_UPDATE", statuses |-> statuses, isActive |-> isActive]

IsStatus(m) == m.type = "STATUS_UPDATE"

\* performScan without the early return when isMonitoring is false
performScan_Unguarded(d, names, monitoring) ==
    LET x == extractAnswerRights(d, names)
    IN  [sent |-> [i \in 1..Len(x.errors) |-> ErrorMsg(x.errors[i])]
                    \o << StatusMsg(processExtractedData(x.results, names),
                                    handleError(monitoring, x.errors)) >>,
         cached |-> x.cached, results |-> x.results,
         monitoring |-> handleError(monitoring, x.errors)]

\* performScan: the messages handed to chrome.runtime.sendMessage, in order,
\* the results cached in lastScanResults (when cached), and isMonitoring after
\* the scan.
performScan(d, names, monitoring) ==
    IF ~monitoring
    THEN [sent |-> << >>, cached |-> FALSE, results |-> << >>, monitoring |-> monitoring]
    ELSE LET x == extractAnswerRights(d, names)
         IN  [sent |-> [i \in 1..Len(x.errors) |-> ErrorMsg(x.errors[i])]
                         \o << StatusMsg(processExtractedData(x.results, names),
                                         handleError(monitoring, x.errors)) >>,
              cached |-> x.cached, results |-> x.results,
              monitoring |-> handleError(monitoring, x.errors)]

\* performMemoryCleanup: lastScanResults.slice(-MAX_SCAN_HISTORY)
performMemoryCleanup(results) ==
    IF Len(results) > MAX_SCAN_HISTORY
    THEN SubSeq(results, Len(results) - MAX_SCAN_HISTORY + 1, Len(results))
    ELSE results

\* The reply to GET_SETTINGS as loadSettings sees it: settings, a reply without
\* watchedNames or error, or an error (response.error, or sendMessage rejects)
SettingsReply(names) == [kind |-> "settings", watchedNames |-> names]
EmptyReply == [kind |-> "empty"]
FailedReply == [kind |-> "error"]

\* loadSettings: the watchlist, the monitoring flag and the error report after it
loadSettings(reply, names, monitoring) ==
    IF reply.kind = "settings"
    THEN [names |-> reply.watchedNames, monitoring |-> monitoring, sent |-> << >>]
    ELSE IF reply.kind = "empty"
    THEN [names |-> names, monitoring |-> monitoring, sent |-> << >>]
    ELSE [names |-> << >>, monitoring |-> monitoring /\ ~isCriticalError(StorageError),
          sent |-> << ErrorMsg(StorageError) >>]

----------------------------------------------------------------------------
(* Messages leaving the content script *)

\* chrome.runtime.sendMessage reaches the background's listener and the
\* listeners of the open extension pages (the side panel).
ToPanel(msgs) == IF panelPc = "closed" THEN << >> ELSE SelectSeq(msgs, IsStatus)

\* the messages of one step are sent while fewer than the bound are in flight
CanSend(msgs) ==
    /\ msgs = << >> \/ Len(bgInbox) < MaxBgInbox
    /\ ToPanel(msgs) = << >> \/ Len(panelInbox) < MaxPanelInbox

Send(msgs) ==
    /\ CanSend(msgs)
    /\ bgInbox' = bgInbox \o msgs
    /\ panelInbox' = panelInbox \o ToPanel(msgs)

RemoveTimeout(ts, id) == [i \in (DOMAIN ts) \ {id} |-> ts[i]]

----------------------------------------------------------------------------
(* QuaggaMonitor: operations *)

\* initialize() up to its await of loadSettings()
Initialize ==
    /\ csPc = "new"
    /\ csPc' = "loading"
    /\ UNCHANGED << observer, connected, watchedNames, isMonitoring, throttleTimer, lastScanResults,
                    memoryCleanupTimer, csLoad, timeouts, nextTimeoutId, bgInbox, window,
                    stopped, fired, dom, backgroundVars, pageVars, panelVars, fnVars >>

\* the target startDOMObserver observes
observeTarget(d) == IF d.table THEN "table" ELSE "body"

\* startDOMObserver without the disconnect of an existing observer
startDOMObserver_NoDisconnect(obs, conn, d) ==
    IF d.apiThrows
    THEN [observer |-> "unattached", connected |-> conn]
    ELSE [observer |-> observeTarget(d), connected |-> conn + 1]

\* startDOMObserver: an existing observer is disconnected, a new one is made
\* and, unless document.querySelector throws, set to observe the target
startDOMObserver(obs, conn, d) ==
    LET disconnected == IF obs \in {"table", "body"} THEN conn - 1 ELSE conn
    IN  IF d.apiThrows
        THEN [observer |-> "unattached", connected |-> disconnected]
        ELSE [observer |-> observeTarget(d), connected |-> disconnected + 1]

\* initialize() after loadSettings(): performScan, startDOMObserver,
\* setupMessageListener, startMemoryCleanup; a throw of document.querySelector
\* in startDOMObserver is caught by initialize and reported
InitializeResume(reply) ==
    /\ csPc = "loading"
    /\ LET l == loadSettings(reply, watchedNames, isMonitoring)
           s == performScan(dom, l.names, l.monitoring)
       IN  /\ watchedNames' = l.names
           /\ lastScanResults' = IF s.cached THEN s.results ELSE lastScanResults
           /\ IF dom.apiThrows
              THEN /\ Send(l.sent \o s.sent \o << ErrorMsg(InitError) >>)
                   /\ isMonitoring' = FALSE
                   /\ observer' = startDOMObserver(observer, connected, dom).observer
                   /\ connected' = startDOMObserver(observer, connected, dom).connected
                   /\ memoryCleanupTimer' = memoryCleanupTimer
                   /\ csPc' = "failed"
              ELSE /\ Send(l.sent \o s.sent)
                   /\ isMonitoring' = s.monitoring
                   /\ observer' = startDOMObserver(observer, connected, dom).observer
                   /\ connected' = startDOMObserver(observer, connected, dom).connected
                   /\ memoryCleanupTimer' = TRUE
                   /\ csPc' = "ready"
    /\ UNCHANGED << throttleTimer, csLoad, timeouts, nextTimeoutId, window, stopped,
                    fired, dom, backgroundVars, pageVars, panelPc, panelState, panelReply, fnVars >>

\* startDOMObserver called on its own, whatever observer the monitor has
StartDOMObserver ==
    /\ observer' = startDOMObserver(observer, connected, dom).observer
    /\ connected' = startDOMObserver(observer, connected, dom).connected
    /\ UNCHANGED << watchedNames, isMonitoring, throttleTimer, lastScanResults,
                    memoryCleanupTimer, csPc, csLoad, timeouts, nextTimeoutId, bgInbox,
                    window, stopped, fired, dom, backgroundVars, pageVars, panelVars, fnVars >>

\* what handleMessage returns for a message of the type, once its case has run
handleMessageReply(type) ==
    IF type \in {"START_MONITORING", "STOP_MONITORING", "UPDATE_SETTINGS"}
    THEN [success |-> TRUE]
    ELSE [error |-> "Unknown message type"]

\* handleMessage(START_MONITORING) up to startMonitoring's await of loadSettings()
HandleStartMonitoring ==
    /\ csPc = "ready"
    /\ csLoad < MaxLoads
    /\ isMonitoring' = TRUE
    /\ csLoad' = csLoad + 1
    /\ stopped' = FALSE
    /\ UNCHANGED << observer, connected, watchedNames, throttleTimer, lastScanResults,
                    memoryCleanupTimer, csPc, timeouts, nextTimeoutId, bgInbox, window,
                    fired, dom, backgroundVars, pageVars, panelVars, fnVars >>

\* startMonitoring after loadSettings(): performScan
StartMonitoringResume(reply) ==
    /\ csLoad > 0
    /\ LET l == loadSettings(reply, watchedNames, isMonitoring)
           s == performScan(dom, l.names, l.monitoring)
       IN  /\ watchedNames' = l.names
           /\ isMonitoring' = s.monitoring
           /\ lastScanResults' = IF s.cached THEN s.results ELSE lastScanResults
           /\ Send(l.sent \o s.sent)
    /\ csLoad' = csLoad - 1
    /\ UNCHANGED << observer, connected, throttleTimer, memoryCleanupTimer, csPc, timeouts,
                    nextTimeoutId, window, stopped, fired, dom, backgroundVars, pageVars, panelPc,
                    panelState, panelReply, fnVars >>

\* stopMonitoring that leaves a pending debounce timer armed
stopMonitoring_KeepTimer(ts, timer) == [timeouts |-> ts, throttleTimer |-> timer]

\* stopMonitoring's cleanup of the debounce timer
stopMonitoring(ts, timer) ==
    IF timer # 0
    THEN [timeouts |-> RemoveTimeout(ts, timer), throttleTimer |-> 0]
    ELSE [timeouts |-> ts, throttleTimer |-> timer]

\* handleMessage(STOP_MONITORING)
HandleStopMonitoring ==
    /\ csPc = "ready"
    /\ isMonitoring' = FALSE
    /\ observer' = "null"
    /\ connected' = IF observer \in {"table", "body"} THEN connected - 1 ELSE connected
    /\ LET t == stopMonitoring(timeouts, throttleTimer)
       IN  /\ timeouts' = t.timeouts
           /\ throttleTimer' = t.throttleTimer
           /\ window' = IF DOMAIN t.timeouts = {} THEN << >> ELSE window
    /\ memoryCleanupTimer' = FALSE
    /\ lastScanResults' = performMemoryCleanup(lastScanResults)
    /\ stopped' = TRUE
    /\ UNCHANGED << watchedNames, csPc, csLoad, nextTimeoutId, bgInbox, fired, dom,
                    backgroundVars, pageVars, panelVars, fnVars >>

\* message.payload.watchedNames || []
payloadWatchedNames(payload) ==
    IF "watchedNames" \in DOMAIN payload THEN payload.watchedNames ELSE << >>

\* handleMessage(UPDATE_SETTINGS) that appends the payload's rules to the list
HandleUpdateSettings_Appends(names) ==
    /\ csPc = "ready"
    /\ watchedNames' = watchedNames \o names
    /\ lastScanResults' = IF performScan(dom, watchedNames \o names, isMonitoring).cached
                          THEN performScan(dom, watchedNames \o names, isMonitoring).results
                          ELSE lastScanResults
    /\ isMonitoring' = performScan(dom, watchedNames \o names, isMonitoring).monitoring
    /\ Send(performScan(dom, watchedNames \o names, isMonitoring).sent)
    /\ UNCHANGED << observer, connected, throttleTimer, memoryCleanupTimer, csPc,
                    csLoad, timeouts, nextTimeoutId, window, stopped, fired, dom,
                    backgroundVars, pageVars, panelPc, panelState, panelReply, fnVars >>

\* handleMessage(UPDATE_SETTINGS) with a payload
HandleUpdateSettings(names) ==
    /\ csPc = "ready"
    /\ watchedNames' = names
    /\ LET s == performScan(dom, names, isMonitoring)
       IN  /\ lastScanResults' = IF s.cached THEN s.results ELSE lastScanResults
           /\ isMonitoring' = s.monitoring
           /\ Send(s.sent)
    /\ UNCHANGED << observer, connected, throttleTimer, memoryCleanupTimer, csPc,
                    csLoad, timeouts, nextTimeoutId, window, stopped, fired, dom,
                    backgroundVars, pageVars, panelPc, panelState, panelReply, fnVars >>

\* The setInterval callback of startMemoryCleanup: performMemoryCleanup()
MemoryCleanupTick ==
    /\ memoryCleanupTimer
    /\ lastScanResults' = performMemoryCleanup(lastScanResults)
    /\ UNCHANGED << observer, connected, watchedNames, isMonitoring, throttleTimer,
                    memoryCleanupTimer, csPc, csLoad, timeouts, nextTimeoutId, bgInbox,
                    window, stopped, fired, dom, backgroundVars, pageVars, panelVars, fnVars >>

\* The page changes without a mutation record reaching the observer
DomChange(d) ==
    /\ d # dom
    /\ dom' = d
    /\ UNCHANGED << monitorVars, backgroundVars, pageVars, panelVars, fnVars >>

\* The observer callback that arms a new timer without clearing the pending one
observerCallback_NoClear(ts, timer, id, mutations) ==
    [timeouts |-> [i \in (DOMAIN ts) \cup {id} |-> IF i = id THEN mutations ELSE ts[i]],
     throttleTimer |-> id]

\* The MutationObserver callback of startDOMObserver: clearTimeout(throttleTimer),
\* then throttleTimer = setTimeout(() => handleDOMChangesOptimized(mutations))
observerCallback(ts, timer, id, mutations) ==
    LET kept == IF timer # 0 THEN RemoveTimeout(ts, timer) ELSE ts
    IN  [timeouts |-> [i \in (DOMAIN kept) \cup {id} |->
                          IF i = id THEN mutations ELSE kept[i]],
         throttleTimer |-> id]

\* The page changes to d and the observer's callback receives the batch
ObserverCallback(d, mutations) ==
    /\ observer \in {"table", "body"}
    /\ nextTimeoutId <= MaxTimeouts
    /\ dom' = d
    /\ LET t == observerCallback(timeouts, throttleTimer, nextTimeoutId, mutations)
       IN  /\ timeouts' = t.timeouts
           /\ throttleTimer' = t.throttleTimer
    /\ nextTimeoutId' = nextTimeoutId + 1
    /\ window' = Append(window, [relevant |-> analyzeMutations(mutations).shouldRescan,
                                  active |-> isMonitoring])
    /\ UNCHANGED << observer, connected, watchedNames, isMonitoring, lastScanResults,
                    memoryCleanupTimer, csPc, csLoad, bgInbox, stopped, fired,
                    backgroundVars, pageVars, panelVars, fnVars >>

\* The records of the change of the page from old to new. The marker and the
\* table are children of a container outside the table, or the marker is put
\* into markerParent; rows are children of the table.
mutationsOf(old, new, markerParent) ==
    LET container == Node(TRUE, {"content"}, relevantClasses)
        table == Node(TRUE, {"_rights-table_1treo_151"},
                      {"_right_1treo_151", "_name_1treo_160"})
        marker == Node(TRUE, {"ui-empty-state"}, {})
        row == Node(TRUE, {"_right_1treo_151"}, {"_name_1treo_160"})
    IN  (IF old.table /\ ~new.table
         THEN << Mutation("childList", << >>, << table >>, container) >> ELSE << >>)
        \o (IF ~old.table /\ new.table
            THEN << Mutation("childList", << table >>, << >>, container) >> ELSE << >>)
        \o (IF ~old.emptyState /\ new.emptyState
            THEN << Mutation("childList", << marker >>, << >>, markerParent) >> ELSE << >>)
        \o (IF old.emptyState /\ ~new.emptyState
            THEN << Mutation("childList", << >>, << marker >>, container) >> ELSE << >>)
        \o (IF old.table /\ new.table /\ old.rows # new.rows
            THEN << Mutation("childList", << row >>, << row >>, table) >> ELSE << >>)

\* The page changes to d. observer.observe(targetElement, {subtree: true, ...})
\* delivers the records whose target is the observed element or inside it: all
\* of them for document.body, those of the table's subtree for the table. The
\* callback runs when records are delivered.
PageChange(d) ==
    /\ d # dom
    /\ nextTimeoutId <= MaxTimeouts
    /\ dom' = d
    /\ \E markerParent \in
            {Node(TRUE, {"content"}, relevantClasses)}
            \cup (IF dom.table /\ d.table
                  THEN {Node(TRUE, {"_rights-table_1treo_151"}, {"ui-empty-state"})}
                  ELSE {}) :
          LET inTable(m) == m.target.classes \cap {"_rights-table_1treo_151",
                                "_right_1treo_151", "_name_1treo_160"} # {}
              observed(m) == observer = "body" \/ (observer = "table" /\ inTable(m))
              mutations == SelectSeq(mutationsOf(dom, d, markerParent), observed)
              t == observerCallback(timeouts, throttleTimer, nextTimeoutId, mutations)
          IN  IF mutations = << >>
              THEN UNCHANGED << timeouts, throttleTimer, nextTimeoutId, window >>
              ELSE /\ timeouts' = t.timeouts
                   /\ throttleTimer' = t.throttleTimer
                   /\ nextTimeoutId' = nextTimeoutId + 1
                   /\ window' = Append(window,
                          [relevant |-> analyzeMutations(mutations).shouldRescan,
                           active |-> isMonitoring])
    /\ UNCHANGED << observer, connected, watchedNames, isMonitoring, lastScanResults,
                    memoryCleanupTimer, csPc, csLoad, bgInbox, stopped, fired,
                    backgroundVars, pageVars, panelVars, fnVars >>

\* The debounce timer fires: handleDOMChangesOptimized(mutations)
TimerFire(id) ==
    /\ id \in DOMAIN timeouts
    /\ timeouts' = RemoveTimeout(timeouts, id)
    /\ window' = << >>
    /\ LET s == IF analyzeMutations(timeouts[id]).shouldRescan
                THEN performScan(dom, watchedNames, isMonitoring)
                ELSE [sent |-> << >>, cached |-> FALSE, results |-> << >>,
                      monitoring |-> isMonitoring]
       IN  /\ lastScanResults' = IF s.cached THEN s.results ELSE lastScanResults
           /\ isMonitoring' = s.monitoring
           /\ Send(s.sent)
           /\ fired' = [window |-> window, isMonitoring |-> isMonitoring,
                         sent |-> s.sent]
    /\ UNCHANGED << observer, connected, watchedNames, throttleTimer,
                    memoryCleanupTimer, csPc, csLoad, nextTimeoutId, stopped, dom,
                    backgroundVars, pageVars, panelPc, panelState, panelReply, fnVars >>

\* the catch of sendStatusUpdate with a handler that reports the rejection
sendStatusUpdateCatch_Reports(monitoring) ==
    [monitoring |-> handleError(monitoring, << MessagingError >>),
     sent |-> << ErrorMsg(MessagingError) >>]

\* the catch of chrome.runtime.sendMessage in sendStatusUpdate: the rejection
\* is logged to the console
sendStatusUpdateCatch(monitoring) == [monitoring |-> monitoring, sent |-> << >>]

\* chrome.runtime.sendMessage rejects for the oldest status update in flight:
\* the background does not get it and the catch of sendStatusUpdate runs
SendStatusUpdateRejected ==
    /\ bgInbox # << >>
    /\ IsStatus(Head(bgInbox))
    /\ isMonitoring' = sendStatusUpdateCatch(isMonitoring).monitoring
    /\ bgInbox' = Tail(bgInbox) \o sendStatusUpdateCatch(isMonitoring).sent
    /\ UNCHANGED << observer, connected, watchedNames, throttleTimer, lastScanResults,
                    memoryCleanupTimer, csPc, csLoad, timeouts, nextTimeoutId, window,
                    stopped, fired, dom, currentState, storedState, bgStop, settings, csInbox,
                    pageVars, panelVars, fnVars >>

----------------------------------------------------------------------------
(* BackgroundService *)

MonitorState(statuses, isActive) == [statuses |-> statuses, isActive |-> isActive]

\* handleStatusUpdate: { ...this.currentState, ...message.payload }
handleStatusUpdate(state, payload) == MonitorState(payload.statuses, payload.isActive)

GetStatusMsg == [type |-> "GET_STATUS"]

\* handleMessage of the oldest message: a STATUS_UPDATE of the content script
\* (sender.tab is set) updates and saves the state, its ERROR is logged, the
\* side panel's GET_STATUS is answered with currentState
BgHandleMessage ==
    /\ bgInbox # << >>
    /\ bgInbox' = Tail(bgInbox)
    /\ IF IsStatus(Head(bgInbox))
       THEN /\ currentState' = handleStatusUpdate(currentState, Head(bgInbox))
            /\ storedState' = currentState'
       ELSE UNCHANGED << currentState, storedState >>
    /\ panelReply' = IF Head(bgInbox) = GetStatusMsg /\ panelReply.kind = "requested"
                     THEN [kind |-> "reply", state |-> currentState]
                     ELSE panelReply
    /\ UNCHANGED << observer, connected, watchedNames, isMonitoring, throttleTimer, lastScanResults,
                    memoryCleanupTimer, csPc, csLoad, timeouts, nextTimeoutId, window,
                    stopped, fired, dom, settings, csInbox, bgStop, pageVars, panelPc, panelState,
                    panelInbox, fnVars >>

\* handleStopMonitoring up to its await of chrome.tabs.sendMessage: STOP_MONITORING
\* is sent to the tab of the content script
BgStopMonitoring ==
    /\ bgStop = "idle"
    /\ csPc = "ready"
    /\ bgStop' = "sent"
    /\ UNCHANGED << monitorVars, dom, currentState, storedState, settings, csInbox, pageVars,
                    panelVars, fnVars >>

\* The STOP_MONITORING the background sent reaches the content script
ReceiveStopMonitoring ==
    /\ bgStop = "sent"
    /\ ~stopped
    /\ HandleStopMonitoring

\* handleStopMonitoring after the content script's response: isActive = false,
\* saveMonitorState. The response comes on the port of tabs.sendMessage, the
\* status updates of the content script are messages of their own.
BgStopMonitoringResume ==
    /\ bgStop = "sent"
    /\ stopped
    /\ currentState' = [currentState EXCEPT !.isActive = FALSE]
    /\ storedState' = currentState'
    /\ bgStop' = "done"
    /\ UNCHANGED << monitorVars, dom, settings, csInbox, pageVars, panelVars, fnVars >>

\* handleGetSettings for a GET_SETTINGS of the content script that has no
\* response yet: the saved settings are read and sent as the response
BgGetSettings ==
    /\ csLoad > Cardinality({i \in DOMAIN csInbox : "kind" \in DOMAIN csInbox[i]})
    /\ csInbox' = Append(csInbox, SettingsReply(settings))
    /\ UNCHANGED << monitorVars, dom, currentState, storedState, bgStop, settings, pageVars, panelVars,
                    fnVars >>

\* handleUpdateSettings for valid settings: updateValidatedSettings saves them
\* and notifySettingsUpdate sends UPDATE_SETTINGS to the tab
BgUpdateSettings(names) ==
    /\ Len(csInbox) < MaxCsInbox
    /\ settings' = names
    /\ csInbox' = Append(csInbox, [type |-> "UPDATE_SETTINGS",
                                    payload |-> [watchedNames |-> names]])
    /\ UNCHANGED << monitorVars, dom, currentState, storedState, bgStop, pageVars, panelVars,
                    fnVars >>

----------------------------------------------------------------------------
(* Validation of settings: BackgroundService and SettingsValidator *)

Settings(names, refreshInterval) ==
    [watchedNames |-> names, refreshInterval |-> refreshInterval]

DEFAULT_SETTINGS == Settings(<< >>, 1000)

\* BackgroundService.validateWatchedName: the errors of a rule whose fields
\* have the types of WatchedName
validateWatchedName(watchedName) ==
    (IF watchedName.id = << >> \/ trim(watchedName.id) = << >>
     THEN << "id" >> ELSE << >>)
    \o (IF watchedName.name = << >> \/ trim(watchedName.name) = << >>
        THEN << "name" >>
        ELSE IF Len(watchedName.name) > 100 THEN << "nameTooLong" >> ELSE << >>)

\* BackgroundService.validateSettings
validateSettings(s) ==
    LET errors ==
           [i \in 1..Len(s.watchedNames) |-> validateWatchedName(s.watchedNames[i])]
        badNames == \E i \in 1..Len(s.watchedNames) : errors[i] # << >>
        badInterval == s.refreshInterval < 100
    IN  [isValid |-> ~badNames /\ ~badInterval,
         errors |-> (IF badNames THEN << "watchedNames" >> ELSE << >>)
                    \o (IF badInterval THEN << "refreshInterval" >> ELSE << >>)]

\* BackgroundService.normalizeSettings; generateId gives an id of its own
normalizeSettings(s) ==
    LET named(wn) == trim(wn.name) # << >>
        kept == SelectSeq(s.watchedNames, named)
    IN  Settings([i \in 1..Len(kept) |->
                     Rule(IF trim(kept[i].id) # << >> THEN trim(kept[i].id) ELSE << "g" >>,
                          trim(kept[i].name), kept[i].exactMatch, kept[i].enabled)],
                 IF s.refreshInterval >= 100 THEN s.refreshInterval ELSE 1000)

\* SettingsValidator.isValidWatchedName
isValidWatchedName(name) ==
    Len(name.id) > 0 /\ Len(trim(name.name)) > 0

\* SettingsValidator.isValidSettings
isValidSettings(s) ==
    /\ \A i \in 1..Len(s.watchedNames) : isValidWatchedName(s.watchedNames[i])
    /\ ~(s.refreshInterval < 100 \/ s.refreshInterval > 60000)

\* SettingsValidator.sanitizeSettings
sanitizeSettings(s) ==
    IF ~isValidSettings(s)
    THEN DEFAULT_SETTINGS
    ELSE LET min(a, b) == IF a < b THEN a ELSE b
             max(a, b) == IF a > b THEN a ELSE b
         IN  Settings([i \in 1..Len(s.watchedNames) |->
                          Rule(trim(s.watchedNames[i].id), trim(s.watchedNames[i].name),
                               s.watchedNames[i].exactMatch, s.watchedNames[i].enabled)],
                      max(100, min(60000, s.refreshInterval)))

\* UPDATE_SETTINGS with the drawn settings is handled by updateValidatedSettings
\* (stored when valid), then the side panel's SettingsTab loads the settings:
\* getValidatedSettings returns what is stored, sanitizeSettings is applied
ApplyUpdateAndLoad ==
    /\ ~fnOut.done
    /\ fnOut' = [done |-> TRUE,
                 value |-> IF validateSettings(fnIn.settings).isValid
                           THEN [success |-> TRUE,
                                 stored |-> normalizeSettings(fnIn.settings),
                                 loaded |-> sanitizeSettings(normalizeSettings(fnIn.settings))]
                           ELSE [success |-> FALSE,
                                 errors |-> validateSettings(fnIn.settings).errors]]
    /\ UNCHANGED << monitorVars, dom, backgroundVars, pageVars, panelVars, fnIn >>

\* BackgroundService.handleUpdateSettings: the response to UPDATE_SETTINGS
handleUpdateSettings(payload) ==
    IF validateSettings(payload).isValid
    THEN [success |-> TRUE, settings |-> normalizeSettings(payload)]
    ELSE [success |-> FALSE, errors |-> validateSettings(payload).errors]

\* The callback of MessagingService.sendMessage without a runtime error: the
\* promise is rejected when the response has an error field, else resolved
\* with the response
settle(response) ==
    IF "error" \in DOMAIN response
    THEN [rejected |-> TRUE, value |-> response.error]
    ELSE [rejected |-> FALSE, value |-> response]

\* AppStore.updateSettings after messagingService.updateSettings has settled:
\* the settings and the error of appState
updateSettings(state, newSettings, settled) ==
    IF settled.rejected
    THEN [state EXCEPT !.error = "Failed to update settings"]
    ELSE [state EXCEPT !.settings = newSettings, !.error = "null"]

\* The side panel's AppStore, holding previous settings, updates to the drawn
\* settings: UPDATE_SETTINGS is answered by the background's handleUpdateSettings
ApplyUpdateSettings ==
    /\ ~fnOut.done
    /\ \E previous \in {DEFAULT_SETTINGS,
                         Settings(<< Rule(<< "1" >>, << "a" >>, FALSE, TRUE) >>, 1000)} :
          fnOut' = [done |-> TRUE,
                    value |-> [previous |-> previous,
                               response |-> handleUpdateSettings(fnIn.settings),
                               state |-> updateSettings(
                                   [settings |-> previous, error |-> "null"],
                                   fnIn.settings,
                                   settle(handleUpdateSettings(fnIn.settings)))]]
    /\ UNCHANGED << monitorVars, dom, backgroundVars, pageVars, panelVars, fnIn >>

----------------------------------------------------------------------------
(* Side panel: MessagingService *)

\* The service after construction. settled[id] lists the calls of resolve and
\* reject of request id, callbacks the requests whose chrome.runtime.sendMessage
\* callback has not run yet.
NoMessages ==
    [messageId |-> 0, pendingMessages |-> {}, timeouts |-> {}, callbacks |-> {},
     settled |-> << >>]

\* sendMessage: a new id, the 5 s timeout, the entry in pendingMessages, the
\* message handed to chrome.runtime.sendMessage
sendMessage(m) ==
    [messageId |-> m.messageId + 1,
     pendingMessages |-> m.pendingMessages \cup {m.messageId + 1},
     timeouts |-> m.timeouts \cup {m.messageId + 1},
     callbacks |-> m.callbacks \cup {m.messageId + 1},
     settled |-> Append(m.settled, << >>)]

\* the 5 s timeout of request id fires
onTimeout(m, id) ==
    [m EXCEPT !.timeouts = @ \ {id},
              !.pendingMessages = @ \ {id},
              !.settled[id] = Append(@, "timeout")]

\* the callback of chrome.runtime.sendMessage that settles whether or not the
\* request is still in pendingMessages
onResponse_NoPendingCheck(m, id, result) ==
    [m EXCEPT !.callbacks = @ \ {id},
              !.timeouts = @ \ {id},
              !.pendingMessages = @ \ {id},
              !.settled[id] = Append(@, result)]

\* the callback of chrome.runtime.sendMessage for request id; result is
\* "lastError", "responseError" (response.error) or "response"
onResponse(m, id, result) ==
    IF id \notin m.pendingMessages
    THEN [m EXCEPT !.callbacks = @ \ {id}]
    ELSE [m EXCEPT !.callbacks = @ \ {id},
                   !.timeouts = @ \ {id},
                   !.pendingMessages = @ \ {id},
                   !.settled[id] = Append(@, result)]

\* cleanup: every pending request's timeout is cleared and its promise
\* rejected, then the map is cleared
cleanup(m) ==
    [m EXCEPT !.timeouts = @ \ m.pendingMessages,
              !.pendingMessages = {},
              !.settled = [id \in DOMAIN m.settled |->
                              IF id \in m.pendingMessages
                              THEN Append(m.settled[id], "cleanup")
                              ELSE m.settled[id]]]

SendMessage ==
    /\ messaging.messageId < MaxMessages
    /\ messaging' = sendMessage(messaging)
    /\ UNCHANGED << monitorVars, dom, backgroundVars, optionsCalls, panelVars, fnVars >>

MessageTimeout(id) ==
    /\ id \in messaging.timeouts
    /\ messaging' = onTimeout(messaging, id)
    /\ UNCHANGED << monitorVars, dom, backgroundVars, optionsCalls, panelVars, fnVars >>

MessageResponse(id, result) ==
    /\ id \in messaging.callbacks
    /\ messaging' = onResponse(messaging, id, result)
    /\ UNCHANGED << monitorVars, dom, backgroundVars, optionsCalls, panelVars, fnVars >>

Cleanup ==
    /\ messaging' = cleanup(messaging)
    /\ UNCHANGED << monitorVars, dom, backgroundVars, optionsCalls, panelVars, fnVars >>

----------------------------------------------------------------------------
(* Options page: OptionsStore and the bulk buttons of WatchedNamesList *)

\* updateWatchedName after getCurrentSettings: the list it sends with
\* UPDATE_SETTINGS, the rule of the id replaced by the rule with the updates
\* ({enabled}) applied, or nothing sent when the id is not in the list
updateWatchedName(current, id, updates) ==
    IF \E i \in 1..Len(current) : current[i].id = id
    THEN [sent |-> TRUE,
          watchedNames |-> [i \in 1..Len(current) |->
              IF i = CHOOSE k \in 1..Len(current) :
                       current[k].id = id /\ \A j \in 1..(k - 1) : current[j].id # id
              THEN [current[i] EXCEPT !.enabled = updates.enabled]
              ELSE current[i]]]
    ELSE [sent |-> FALSE, watchedNames |-> current]

\* The click on 'enable all' (enable = TRUE) or 'disable all': forEach calls
\* updateWatchedName for every shown rule that is not in that state yet,
\* without awaiting; each call runs up to its GET_SETTINGS. The buttons are
\* shown for more than one rule; the page shows the saved list.
OptionsBulk(enable) ==
    /\ optionsCalls = << >>
    /\ Len(settings) > 1
    /\ \E i \in 1..Len(settings) : settings[i].enabled # enable
    /\ LET todo(wn) == wn.enabled # enable
           shown == SelectSeq(settings, todo)
       IN  optionsCalls' = [i \in 1..Len(shown) |->
               [id |-> shown[i].id, updates |-> [enabled |-> enable],
                pc |-> "get", current |-> << >>]]
    /\ UNCHANGED << monitorVars, dom, backgroundVars, messaging, panelVars, fnVars >>

\* The background's handleGetSettings answers the GET_SETTINGS of call c
OptionsGetSettings(c) ==
    /\ c \in DOMAIN optionsCalls
    /\ optionsCalls[c].pc = "get"
    /\ optionsCalls' = [optionsCalls EXCEPT ![c].pc = "update", ![c].current = settings]
    /\ UNCHANGED << monitorVars, dom, backgroundVars, messaging, panelVars, fnVars >>

\* Call c resumes with the settings it got and sends UPDATE_SETTINGS with the
\* whole list; the background's updateValidatedSettings saves it and notifies
\* the tab
OptionsUpdateSettings(c) ==
    /\ c \in DOMAIN optionsCalls
    /\ optionsCalls[c].pc = "update"
    /\ optionsCalls' = [optionsCalls EXCEPT ![c].pc = "done"]
    /\ LET u == updateWatchedName(optionsCalls[c].current, optionsCalls[c].id,
                                  optionsCalls[c].updates)
       IN  IF u.sent
           THEN /\ Len(csInbox) < MaxCsInbox
                /\ settings' = u.watchedNames
                /\ csInbox' = Append(csInbox, [type |-> "UPDATE_SETTINGS",
                                 payload |-> [watchedNames |-> u.watchedNames]])
           ELSE UNCHANGED << settings, csInbox >>
    /\ UNCHANGED << monitorVars, dom, currentState, storedState, bgStop, messaging, panelVars,
                    fnVars >>

\* The oldest UPDATE_SETTINGS in flight reaches the content script's listener:
\* handleMessage(UPDATE_SETTINGS)
ReceiveUpdateSettings ==
    /\ csPc = "ready"
    /\ \E i \in DOMAIN csInbox :
          /\ "type" \in DOMAIN csInbox[i]
          /\ \A j \in 1..(i - 1) : "type" \notin DOMAIN csInbox[j]
          /\ watchedNames' = payloadWatchedNames(csInbox[i].payload)
          /\ csInbox' = SubSeq(csInbox, 1, i - 1) \o SubSeq(csInbox, i + 1, Len(csInbox))
    /\ LET s == performScan(dom, watchedNames', isMonitoring)
       IN  /\ lastScanResults' = IF s.cached THEN s.results ELSE lastScanResults
           /\ isMonitoring' = s.monitoring
           /\ Send(s.sent)
    /\ UNCHANGED << observer, connected, throttleTimer, memoryCleanupTimer, csPc,
                    csLoad, timeouts, nextTimeoutId, window, stopped, fired, dom,
                    currentState, storedState, bgStop, settings, pageVars, panelPc, panelState, panelReply,
                    fnVars >>

\* The response to GET_SETTINGS reaches the content script: loadSettings
\* resumes, then startMonitoring's performScan
ReceiveSettings ==
    /\ csLoad > 0
    /\ \E i \in DOMAIN csInbox :
          /\ "kind" \in DOMAIN csInbox[i]
          /\ csInbox' = SubSeq(csInbox, 1, i - 1) \o SubSeq(csInbox, i + 1, Len(csInbox))
          /\ LET l == loadSettings(csInbox[i], watchedNames, isMonitoring)
                 s == performScan(dom, l.names, l.monitoring)
             IN  /\ watchedNames' = l.names
                 /\ isMonitoring' = s.monitoring
                 /\ lastScanResults' = IF s.cached THEN s.results ELSE lastScanResults
                 /\ Send(l.sent \o s.sent)
    /\ csLoad' = csLoad - 1
    /\ UNCHANGED << observer, connected, throttleTimer, memoryCleanupTimer, csPc, timeouts,
                    nextTimeoutId, window, stopped, fired, dom, currentState, storedState, bgStop,
                    settings, pageVars, panelPc, panelState, panelReply, fnVars >>

----------------------------------------------------------------------------
(* Side panel: AppStore *)

\* App.svelte onMount: appStore.initialize() up to its await of
\* getSettings() and getStatus()
PanelOpen ==
    /\ panelPc = "closed"
    /\ \A i \in 1..Len(bgInbox) : bgInbox[i] # GetStatusMsg
    /\ panelPc' = "loading"
    /\ panelState' = MonitorState(<< >>, FALSE)
    /\ panelReply' = [kind |-> "requested"]
    /\ panelInbox' = << >>
    /\ bgInbox' = Append(bgInbox, GetStatusMsg)
    /\ UNCHANGED << observer, connected, watchedNames, isMonitoring, throttleTimer, lastScanResults,
                    memoryCleanupTimer, csPc, csLoad, timeouts, nextTimeoutId, window,
                    stopped, fired, dom, backgroundVars, pageVars, fnVars >>

\* initialize() after the await: the STATUS_UPDATE listener is registered and
\* monitorState is set from the GET_STATUS reply
PanelInitialized ==
    /\ panelPc = "loading"
    /\ panelReply.kind = "reply"
    /\ panelPc' = "ready"
    /\ panelState' = panelReply.state
    /\ panelReply' = [kind |-> "none"]
    /\ UNCHANGED << monitorVars, dom, backgroundVars, pageVars, panelInbox, fnVars >>

\* initialize() when a request is rejected (message timeout, lastError):
\* no listener is registered
PanelInitFailed ==
    /\ panelPc = "loading"
    /\ panelPc' = "failed"
    /\ panelReply' = [kind |-> "none"]
    /\ UNCHANGED << monitorVars, dom, backgroundVars, pageVars, panelState, panelInbox, fnVars >>

\* the listener of AppStore.initialize: monitorState = message.payload
onStatusUpdate(state, payload) == MonitorState(payload.statuses, payload.isActive)

\* A STATUS_UPDATE broadcast reaches the side panel page: the listener of
\* MessagingService.onMessage runs if initialize has registered it
PanelReceive ==
    /\ panelInbox # << >>
    /\ panelInbox' = Tail(panelInbox)
    /\ panelState' = IF panelPc = "ready"
                     THEN onStatusUpdate(panelState, Head(panelInbox))
                     ELSE panelState
    /\ UNCHANGED << monitorVars, dom, backgroundVars, pageVars, panelPc, panelReply, fnVars >>

\* StatusTab's auto refresh tick: appStore.getStatus is not a function, the
\* TypeError is caught and logged
PanelAutoRefresh ==
    /\ panelPc = "ready"
    /\ panelState.isActive
    /\ UNCHANGED vars

\* App.svelte onDestroy: appStore.cleanup()
PanelClose ==
    /\ panelPc # "closed"
    /\ panelPc' = "closed"
    /\ panelReply' = [kind |-> "none"]
    /\ panelInbox' = << >>
    /\ UNCHANGED << monitorVars, dom, backgroundVars, pageVars, panelState, fnVars >>

----------------------------------------------------------------------------
(* A function applied on its own *)

\* checkNameMatch applied to the drawn name and rule
ApplyCheckNameMatch ==
    /\ ~fnOut.done
    /\ fnOut' = [done |-> TRUE, value |-> checkNameMatch(fnIn.extractedName, fnIn.watchedName)]
    /\ UNCHANGED << monitorVars, dom, backgroundVars, pageVars, panelVars, fnIn >>

\* the result is dropped
ResetCheckNameMatch ==
    /\ fnOut.done
    /\ fnOut' = [done |-> FALSE, value |-> FALSE]
    /\ UNCHANGED << monitorVars, dom, backgroundVars, pageVars, panelVars, fnIn >>

\* isWhiteBackground applied to the drawn text
ApplyIsWhiteBackground ==
    /\ ~fnOut.done
    /\ fnOut' = [done |-> TRUE, value |-> isWhiteBackground(fnIn.backgroundColor)]
    /\ UNCHANGED << monitorVars, dom, backgroundVars, pageVars, panelVars, fnIn >>

\* extractAnswerRights applied to the drawn page under the drawn watchlist
ApplyExtractAnswerRights ==
    /\ ~fnOut.done
    /\ fnOut' = [done |-> TRUE, value |-> extractAnswerRights(dom, watchedNames)]
    /\ UNCHANGED << monitorVars, dom, backgroundVars, pageVars, panelVars, fnIn >>

\* isRelevantChange applied to the drawn mutation record
ApplyIsRelevantChange ==
    /\ ~fnOut.done
    /\ fnOut' = [done |-> TRUE, value |-> isRelevantChange(fnIn.mutation)]
    /\ UNCHANGED << monitorVars, dom, backgroundVars, pageVars, panelVars, fnIn >>

\* the status records of the page under the watchlist, the rows extracted by
\* extractWithNormalSearch and by extractWithEfficientSearch
ApplyStrategies ==
    /\ ~fnOut.done
    /\ fnOut' =
         [done |-> TRUE,
          linear |-> processExtractedData(
                         extractWithNormalSearch(rightElements(dom)).results, watchedNames),
          indexed |-> processExtractedData(
                          extractWithEfficientSearch(rightElements(dom), watchedNames).results,
                          watchedNames)]
    /\ UNCHANGED << monitorVars, dom, backgroundVars, pageVars, panelVars, fnIn >>

\* the result is dropped
ResetStrategies ==
    /\ fnOut.done
    /\ fnOut' = [done |-> FALSE]
    /\ UNCHANGED << monitorVars, dom, backgroundVars, pageVars, panelVars, fnIn >>

----------------------------------------------------------------------------
(* The inputs of the model *)

\* watchlists: the rule at position i has id i
RuleBodies(names) == [name : names, exactMatch : BOOLEAN, enabled : BOOLEAN]
WatchListsOf(names, n) ==
    UNION {{[i \in 1..k |-> Rule(i, b[i].name, b[i].exactMatch, b[i].enabled)] :
               b \in [1..k -> RuleBodies(names)]} : k \in 0..n}
WatchLists == WatchListsOf(Strings(ScanChars, MaxRuleNameLen), MaxRules)
StrategyWatchLists == WatchListsOf(Strings(ScanChars, MaxStrategyNameLen), MaxStrategyRules)

\* rows of the answer rights table: without a name element, with a blank name,
\* with each name and background, and one whose computed style cannot be read
ScanRows ==
    {BlankRow, Row(TRUE, << " " >>, Gray, FALSE), Row(TRUE, << "a" >>, Gray, TRUE)}
        \cup {Row(TRUE, t, bg, FALSE) :
                 t \in {u \in Strings(ScanChars, MaxRowTextLen) : trim(u) # << >>},
                 bg \in BgSamples}

\* tables of up to MaxRows rows, followed by pad rows without a name
Tables(pads) ==
    {Dom(FALSE, TRUE, rows, pad, FALSE) :
        rows \in UNION {[1..k -> ScanRows] : k \in 0..MaxRows}, pad \in pads}

\* pages: the empty state, no table, a failing DOM API, and tables alone or
\* followed by more rows than the threshold
ScanDoms ==
    {Dom(TRUE, FALSE, << >>, 0, FALSE), Dom(FALSE, FALSE, << >>, 0, FALSE),
     Dom(FALSE, TRUE, << >>, 0, TRUE)}
        \cup Tables({0, EFFICIENT_SEARCH_THRESHOLD})

LifeWatchLists == {<< >>, << Rule(1, << "a" >>, FALSE, TRUE) >>}
LifeReplies == {SettingsReply(names) : names \in LifeWatchLists} \cup {EmptyReply, FailedReply}
LifeDoms ==
    {Dom(TRUE, FALSE, << >>, 0, FALSE),
     Dom(FALSE, TRUE, << Row(TRUE, << "A" >>, << "w", "h", "i", "t", "e" >>, FALSE) >>,
         0, FALSE)}

RowNode == Node(TRUE, {"_right_1treo_151"}, {"_name_1treo_160"})
TextNode == Node(FALSE, {}, {})
AdNode == Node(TRUE, {"ad-banner"}, {})
MixedBatch ==
    << Mutation("attributes", << >>, << >>, AdNode),
       Mutation("childList", << TextNode, RowNode >>, << >>, AdNode) >>
NoiseBatch ==
    << Mutation("attributes", << >>, << >>, AdNode),
       Mutation("childList", << TextNode >>, << >>, AdNode) >>
Batches == {MixedBatch, NoiseBatch}

----------------------------------------------------------------------------
(* Specifications *)

\* the monitor, the background and the side panel after construction
Constructed ==
    /\ observer = "null"
    /\ connected = 0
    /\ watchedNames = << >>
    /\ isMonitoring = FALSE
    /\ throttleTimer = 0
    /\ lastScanResults = << >>
    /\ memoryCleanupTimer = FALSE
    /\ csPc = "new"
    /\ csLoad = 0
    /\ timeouts = << >>
    /\ nextTimeoutId = 1
    /\ bgInbox = << >>
    /\ window = << >>
    /\ stopped = FALSE
    /\ fired = [window |-> << >>, isMonitoring |-> FALSE, sent |-> << >>]
    /\ currentState = MonitorState(<< >>, FALSE)
    /\ storedState = MonitorState(<< >>, FALSE)
    /\ settings = watchedNames
    /\ csInbox = << >>
    /\ bgStop = "idle"
    /\ optionsCalls = << >>
    /\ messaging = NoMessages
    /\ panelPc = "closed"
    /\ panelState = MonitorState(<< >>, FALSE)
    /\ panelReply = [kind |-> "none"]
    /\ panelInbox = << >>

NoFunction ==
    /\ fnIn = [extractedName |-> << >>, watchedName |-> Rule(1, << >>, FALSE, FALSE)]
    /\ fnOut = [done |-> FALSE, value |-> FALSE]

\* The content script from its construction on a page, with the background
Init ==
    /\ Constructed
    /\ NoFunction
    /\ dom \in LifeDoms

Next ==
    \/ Initialize
    \/ \E reply \in LifeReplies : InitializeResume(reply)
    \/ HandleStartMonitoring
    \/ \E reply \in LifeReplies : StartMonitoringResume(reply)
    \/ HandleStopMonitoring
    \/ \E names \in LifeWatchLists : HandleUpdateSettings(names)
    \/ \E d \in LifeDoms : DomChange(d)
    \/ \E d \in LifeDoms, mutations \in Batches : ObserverCallback(d, mutations)
    \/ \E id \in 1..MaxTimeouts : TimerFire(id)
    \/ MemoryCleanupTick
    \/ BgHandleMessage

Spec == Init /\ [][Next]_vars

\* The monitor after initialize and START_MONITORING, with nothing in flight
Monitoring ==
    /\ observer = observeTarget(dom)
    /\ connected = 1
    /\ isMonitoring = TRUE
    /\ throttleTimer = 0
    /\ lastScanResults = << >>
    /\ memoryCleanupTimer = TRUE
    /\ csPc = "ready"
    /\ csLoad = 0
    /\ timeouts = << >>
    /\ nextTimeoutId = 1
    /\ bgInbox = << >>
    /\ window = << >>
    /\ stopped = FALSE
    /\ fired = [window |-> << >>, isMonitoring |-> FALSE, sent |-> << >>]
    /\ currentState = MonitorState(<< >>, FALSE)
    /\ storedState = MonitorState(<< >>, FALSE)
    /\ settings = watchedNames
    /\ csInbox = << >>
    /\ bgStop = "idle"
    /\ optionsCalls = << >>
    /\ messaging = NoMessages
    /\ panelPc = "closed"
    /\ panelState = MonitorState(<< >>, FALSE)
    /\ panelReply = [kind |-> "none"]
    /\ panelInbox = << >>

\* checkNameMatch on every name and rule of the bounds
InitMatch ==
    /\ Constructed
    /\ dom = Dom(TRUE, FALSE, << >>, 0, FALSE)
    /\ fnIn \in [extractedName : Strings(Chars, MaxNameLen),
                 watchedName : {Rule(1, b.name, b.exactMatch, b.enabled) :
                                   b \in RuleBodies(Strings(Chars, MaxNameLen))}]
    /\ fnOut = [done |-> FALSE, value |-> FALSE]

NextMatch ==
    \/ ApplyCheckNameMatch
    \/ ResetCheckNameMatch

SpecMatch == InitMatch /\ [][NextMatch]_vars

\* The texts given to isWhiteBackground: a head, three channels separated by
\* commas with or without a space after them, a closing parenthesis, with or
\* without a character before and after; and texts of other shapes.
ColorTexts ==
    LET ChannelTexts == {<< >>, << "0" >>, << "2", "3", "9" >>, << "2", "4", "0" >>, << "2", "5", "5" >>}
        Gaps == {<< >>, << " " >>}
        Heads == {<< "r", "g", "b", "(" >>, << "r", "g", "b", "a", "(" >>, << "R", "G", "B", "(" >>}
        Affixes == {<< >>, << "x" >>}
        RgbShaped ==
            {pre \o h \o r \o << "," >> \o s1 \o g \o << "," >> \o s2 \o b \o << ")" >> \o post :
                pre \in Affixes, h \in Heads, r \in ChannelTexts, s1 \in Gaps, g \in ChannelTexts,
                s2 \in Gaps, b \in ChannelTexts, post \in Affixes}
        OtherTexts ==
            {<< >>, << "w", "h", "i", "t", "e" >>, << "W", "h", "i", "t", "e" >>, << " ", "w", "h", "i", "t", "e" >>, << "t", "r", "a", "n", "s", "p", "a", "r", "e", "n", "t" >>,
             << "r", "g", "b", "a", "(", "2", "5", "5", ",", " ", "2", "5", "5", ",", " ", "2", "5", "5", ",", " ", "0", ")" >>,
             << "r", "g", "b", "(", " ", "2", "5", "5", ",", " ", "2", "5", "5", ",", " ", "2", "5", "5", ")" >>,
             << "r", "g", "b", "(", "2", "5", "5", " ", ",", "2", "5", "5", " ", ",", "2", "5", "5", ")" >>}
    IN  RgbShaped \cup OtherTexts

\* isWhiteBackground on every text of ColorTexts
InitColor ==
    /\ Constructed
    /\ dom = Dom(TRUE, FALSE, << >>, 0, FALSE)
    /\ fnIn \in [backgroundColor : ColorTexts]
    /\ fnOut = [done |-> FALSE, value |-> FALSE]

NextColor == ApplyIsWhiteBackground

SpecColor == InitColor /\ [][NextColor]_vars

\* Pages for the extraction alone: tables of up to MaxExtractRows rows (without
\* a name element, with a blank name, unreadable, named), alone or followed by
\* one row fewer than the threshold or as many rows as the threshold, each
\* also with the empty state shown; a page
\* without table, with or without the empty state; a failing DOM API.
ExtractDoms ==
    LET ExtractRows == {BlankRow, Row(TRUE, << " " >>, Gray, FALSE),
                        Row(TRUE, << "a" >>, Gray, TRUE),
                        Row(TRUE, << "a" >>, White, FALSE),
                        Row(TRUE, << " ", "A" >>, Gray, FALSE)}
    IN  {Dom(e, TRUE, rows, pad, FALSE) :
            e \in BOOLEAN,
            rows \in UNION {[1..k -> ExtractRows] : k \in 0..MaxExtractRows},
            pad \in {0, EFFICIENT_SEARCH_THRESHOLD - 1, EFFICIENT_SEARCH_THRESHOLD}}
          \cup {Dom(TRUE, FALSE, << >>, 0, FALSE), Dom(FALSE, FALSE, << >>, 0, FALSE),
                Dom(FALSE, TRUE, << >>, 0, TRUE)}

\* extractAnswerRights on every page of ExtractDoms under every watchlist of
\* StrategyWatchLists
InitExtract ==
    /\ dom \in ExtractDoms
    /\ watchedNames \in StrategyWatchLists
    /\ Monitoring
    /\ fnIn = [extractedName |-> << >>, watchedName |-> Rule(1, << >>, FALSE, FALSE)]
    /\ fnOut = [done |-> FALSE]

NextExtract == ApplyExtractAnswerRights

SpecExtract == InitExtract /\ [][NextExtract]_vars

\* Mutation records: of each type, with up to maxNodes added nodes and up to
\* one removed node, each a text node or an element with no class, one of the
\* four classes or an unrelated class, and with descendants carrying nothing,
\* a watched class or an unrelated class; the target an element of three kinds.
ChangeMutations(maxNodes) ==
    LET Classes == {{}} \cup {{c} : c \in relevantClasses \cup {"ad-banner"}}
        Inners == {{}, {"_name_1treo_160"}, {"ad-banner"}}
        Nodes == {TextNode} \cup {Node(TRUE, c, n) : c \in Classes, n \in Inners}
    IN  {Mutation(type, added, removed, target) :
            type \in {"childList", "attributes", "characterData"},
            added \in UNION {[1..k -> Nodes] : k \in 0..maxNodes},
            removed \in UNION {[1..k -> Nodes] : k \in 0..1},
            target \in {AdNode, RowNode, Node(TRUE, {"ad-banner"}, {"_name_1treo_160"})}}

\* isRelevantChange on every record with up to MaxNodes added nodes
InitChange ==
    /\ Constructed
    /\ dom = Dom(TRUE, FALSE, << >>, 0, FALSE)
    /\ fnIn \in [mutation : ChangeMutations(MaxNodes)]
    /\ fnOut = [done |-> FALSE, value |-> FALSE]

NextChange == ApplyIsRelevantChange

SpecChange == InitChange /\ [][NextChange]_vars

\* startDOMObserver called again and again on a monitor that observes a page
\* with a table, while the page changes and STOP_MONITORING may arrive
InitObserver ==
    /\ dom \in Tables({0})
    /\ watchedNames = << >>
    /\ Monitoring
    /\ NoFunction

NextObserver ==
    \/ StartDOMObserver
    \/ HandleStopMonitoring
    \/ \E d \in ScanDoms : DomChange(d)

SpecObserver == InitObserver /\ [][NextObserver]_vars

\* The initialized monitor while mutation batches reach its observer, debounce
\* timers fire, startDOMObserver is called again and STOP_MONITORING arrives
InitDebounce ==
    /\ dom \in LifeDoms
    /\ watchedNames \in LifeWatchLists
    /\ Monitoring
    /\ NoFunction

NextDebounce ==
    \/ \E d \in LifeDoms, mutations \in Batches : ObserverCallback(d, mutations)
    \/ \E id \in 1..MaxTimeouts : TimerFire(id)
    \/ StartDOMObserver
    \/ HandleStopMonitoring
    \/ BgHandleMessage

SpecDebounce == InitDebounce /\ [][NextDebounce]_vars

\* Tables of named rows: none, MAX_SCAN_HISTORY of them, MaxHistoryRows of them
HistoryDoms ==
    {Dom(FALSE, TRUE, [i \in 1..n |-> Row(TRUE, << "a" >>, White, FALSE)], 0, FALSE) :
        n \in {0, MAX_SCAN_HISTORY, MaxHistoryRows}}

\* A session of the initialized monitor on such tables: scans, periodic
\* cleanups, stops and starts
InitHistory ==
    /\ dom \in HistoryDoms
    /\ watchedNames \in LifeWatchLists
    /\ Monitoring
    /\ NoFunction

NextHistory ==
    \/ \E names \in LifeWatchLists : HandleUpdateSettings(names)
    \/ \E d \in HistoryDoms : DomChange(d)
    \/ MemoryCleanupTick
    \/ HandleStopMonitoring
    \/ HandleStartMonitoring
    \/ \E reply \in LifeReplies : StartMonitoringResume(reply)
    \/ BgHandleMessage

SpecHistory == InitHistory /\ [][NextHistory]_vars

\* The scan of every page of the bounds under every watchlist of the bounds:
\* the monitor has loaded the watchlist and a relevant change has armed the timer
InitScan ==
    /\ dom \in ScanDoms
    /\ watchedNames \in WatchLists
    /\ observer = observeTarget(dom)
    /\ connected = 1
    /\ isMonitoring = TRUE
    /\ throttleTimer = 1
    /\ lastScanResults = << >>
    /\ memoryCleanupTimer = TRUE
    /\ csPc = "ready"
    /\ csLoad = 0
    /\ timeouts = << MixedBatch >>
    /\ nextTimeoutId = 2
    /\ bgInbox = << >>
    /\ window = << [relevant |-> TRUE, active |-> TRUE] >>
    /\ stopped = FALSE
    /\ fired = [window |-> << >>, isMonitoring |-> FALSE, sent |-> << >>]
    /\ currentState = MonitorState(<< >>, FALSE)
    /\ storedState = MonitorState(<< >>, FALSE)
    /\ settings = watchedNames
    /\ csInbox = << >>
    /\ bgStop = "idle"
    /\ optionsCalls = << >>
    /\ messaging = NoMessages
    /\ panelPc = "closed"
    /\ panelState = MonitorState(<< >>, FALSE)
    /\ panelReply = [kind |-> "none"]
    /\ panelInbox = << >>
    /\ NoFunction

NextScan ==
    \/ \E id \in 1..MaxTimeouts : TimerFire(id)
    \/ BgHandleMessage

SpecScan == InitScan /\ [][NextScan]_vars

\* Mutation batches: every sequence of up to MaxBatch records, each the
\* addition of a row or an attribute change of an unrelated element, and every
\* sequence of up to MaxMixedBatch records of five kinds
BatchInputs ==
    LET Added == Mutation("childList", << TextNode, RowNode >>, << >>, AdNode)
        Noise == Mutation("attributes", << >>, << >>, AdNode)
        Kinds == {Added, Noise, Mutation("attributes", << >>, << >>, RowNode),
                  Mutation("childList", << >>, << RowNode >>, AdNode),
                  Mutation("characterData", << >>, << >>, RowNode)}
    IN  UNION {[1..k -> {Added, Noise}] : k \in 0..MaxBatch}
            \cup UNION {[1..k -> Kinds] : k \in 0..MaxMixedBatch}

\* The monitoring monitor with a debounce timer armed by one batch of
\* BatchInputs, kept in fnIn
InitBatch ==
    /\ dom \in LifeDoms
    /\ watchedNames \in LifeWatchLists
    /\ fnIn \in [mutations : BatchInputs]
    /\ observer = observeTarget(dom)
    /\ connected = 1
    /\ isMonitoring = TRUE
    /\ throttleTimer = 1
    /\ lastScanResults = << >>
    /\ memoryCleanupTimer = TRUE
    /\ csPc = "ready"
    /\ csLoad = 0
    /\ timeouts = << fnIn.mutations >>
    /\ nextTimeoutId = 2
    /\ bgInbox = << >>
    /\ window = << [relevant |-> analyzeMutations(fnIn.mutations).shouldRescan,
                    active |-> TRUE] >>
    /\ stopped = FALSE
    /\ fired = [window |-> << >>, isMonitoring |-> FALSE, sent |-> << >>]
    /\ currentState = MonitorState(<< >>, FALSE)
    /\ storedState = MonitorState(<< >>, FALSE)
    /\ settings = watchedNames
    /\ csInbox = << >>
    /\ bgStop = "idle"
    /\ optionsCalls = << >>
    /\ messaging = NoMessages
    /\ panelPc = "closed"
    /\ panelState = MonitorState(<< >>, FALSE)
    /\ panelReply = [kind |-> "none"]
    /\ panelInbox = << >>
    /\ fnOut = [done |-> FALSE, value |-> FALSE]

NextBatch ==
    \/ \E id \in 1..MaxTimeouts : TimerFire(id)
    \/ BgHandleMessage

SpecBatch == InitBatch /\ [][NextBatch]_vars

\* The monitoring monitor on a page whose DOM API throws, a debounce timer
\* armed by a relevant batch; the page may change to the pages of LifeDoms,
\* and the transport may reject a status update
InitFailure ==
    /\ dom = Dom(FALSE, TRUE, << >>, 0, TRUE)
    /\ watchedNames \in LifeWatchLists
    /\ observer = "table"
    /\ connected = 1
    /\ isMonitoring = TRUE
    /\ throttleTimer = 1
    /\ lastScanResults = << >>
    /\ memoryCleanupTimer = TRUE
    /\ csPc = "ready"
    /\ csLoad = 0
    /\ timeouts = << MixedBatch >>
    /\ nextTimeoutId = 2
    /\ bgInbox = << >>
    /\ window = << [relevant |-> TRUE, active |-> TRUE] >>
    /\ stopped = FALSE
    /\ fired = [window |-> << >>, isMonitoring |-> FALSE, sent |-> << >>]
    /\ currentState = MonitorState(<< >>, FALSE)
    /\ storedState = MonitorState(<< >>, FALSE)
    /\ settings = watchedNames
    /\ csInbox = << >>
    /\ bgStop = "idle"
    /\ optionsCalls = << >>
    /\ messaging = NoMessages
    /\ panelPc = "closed"
    /\ panelState = MonitorState(<< >>, FALSE)
    /\ panelReply = [kind |-> "none"]
    /\ panelInbox = << >>
    /\ NoFunction

NextFailure ==
    \/ \E id \in 1..MaxTimeouts : TimerFire(id)
    \/ \E names \in LifeWatchLists : HandleUpdateSettings(names)
    \/ \E d \in LifeDoms : DomChange(d)
    \/ \E d \in LifeDoms, mutations \in Batches : ObserverCallback(d, mutations)
    \/ BgHandleMessage
    \/ SendStatusUpdateRejected

SpecFailure == InitFailure /\ [][NextFailure]_vars

\* The initialized monitor holding a watchlist whose rules have the ids 8 and
\* 9, and an UPDATE_SETTINGS message whose payload (kept in fnIn) has a
\* watchlist of the bounds or none
InitUpdate ==
    /\ dom \in LifeDoms
    /\ watchedNames \in {<< Rule(9, << "a" >>, FALSE, TRUE) >>,
                          << Rule(8, << "a" >>, FALSE, TRUE), Rule(9, << "A" >>, TRUE, TRUE) >>}
    /\ Monitoring
    /\ fnIn \in [payload : [watchedNames : WatchLists] \cup {[lastScan |-> 0]}]
    /\ fnOut = [done |-> FALSE, value |-> FALSE]

NextUpdate ==
    \/ HandleUpdateSettings(payloadWatchedNames(fnIn.payload))
    \/ HandleStopMonitoring
    \/ BgHandleMessage

SpecUpdate == InitUpdate /\ [][NextUpdate]_vars

\* The initialized monitor while the page changes under its observer (the
\* table or, when there was no table at the start, the body) and the debounce
\* timers fire
InitPage ==
    /\ dom \in LifeDoms
    /\ watchedNames \in LifeWatchLists
    /\ Monitoring
    /\ NoFunction

NextPage ==
    \/ \E d \in LifeDoms \cup {Dom(e, TRUE, << >>, 0, FALSE) : e \in BOOLEAN} : PageChange(d)
    \/ \E id \in 1..MaxTimeouts : TimerFire(id)
    \/ BgHandleMessage

SpecPage == InitPage /\ [][NextPage]_vars

\* Settings of up to MaxSettingsRules rules (ids and names empty, blank, plain
\* or padded with spaces) with refresh intervals around both limits
InitSettings ==
    /\ Constructed
    /\ dom = Dom(TRUE, FALSE, << >>, 0, FALSE)
    /\ fnIn \in [settings :
          {Settings(names, refreshInterval) :
              names \in UNION {[1..n -> {Rule(id, name, FALSE, enabled) :
                                  id \in {<< >>, << " " >>, << "1" >>, << " ", "1" >>},
                                  name \in {<< >>, << " " >>, << "a" >>, << "a", " " >>},
                                  enabled \in BOOLEAN}] : n \in 0..MaxSettingsRules},
              refreshInterval \in {99, 100, 1000, 60000, 60001}}]
    /\ fnOut = [done |-> FALSE, value |-> FALSE]

NextSettings == ApplyUpdateAndLoad

SpecSettings == InitSettings /\ [][NextSettings]_vars

\* The same settings handed to the side panel's AppStore.updateSettings
NextAppUpdate == ApplyUpdateSettings

SpecAppUpdate == InitSettings /\ [][NextAppUpdate]_vars

\* The monitoring content script and the background while the page changes,
\* scans send status updates and STOP_MONITORING is handled by the background
InitStop ==
    /\ dom \in LifeDoms
    /\ watchedNames \in LifeWatchLists
    /\ Monitoring
    /\ NoFunction

NextStop ==
    \/ \E d \in LifeDoms, mutations \in Batches : ObserverCallback(d, mutations)
    \/ \E id \in 1..MaxTimeouts : TimerFire(id)
    \/ BgHandleMessage
    \/ BgStopMonitoring
    \/ ReceiveStopMonitoring
    \/ BgStopMonitoringResume

SpecStop == InitStop /\ [][NextStop]_vars

\* The side panel's MessagingService: requests are sent, answered (with a
\* response, an error response or a runtime error) at any time, time out, and
\* cleanup is called at any time
InitMessaging ==
    /\ dom \in LifeDoms
    /\ watchedNames = << >>
    /\ Monitoring
    /\ NoFunction

NextMessaging ==
    \/ SendMessage
    \/ \E id \in 1..MaxMessages : MessageTimeout(id)
    \/ \E id \in 1..MaxMessages, result \in {"lastError", "responseError", "response"} :
          MessageResponse(id, result)
    \/ Cleanup

SpecMessaging == InitMessaging /\ [][NextMessaging]_vars

\* The options page over a saved list of two or three rules: a bulk button is
\* clicked, the calls it started proceed in any order, the tab is notified
InitBulk ==
    /\ dom \in LifeDoms
    /\ watchedNames \in
          {[i \in 1..n |-> Rule(i, << << "a" >>, << "b" >>, << "c" >> >>[i], FALSE, e[i])] :
              n \in 2..MaxBulkRules, e \in [1..MaxBulkRules -> BOOLEAN]}
    /\ Monitoring
    /\ NoFunction

NextBulk ==
    \/ \E enable \in BOOLEAN : OptionsBulk(enable)
    \/ \E c \in 1..MaxBulkRules : OptionsGetSettings(c)
    \/ \E c \in 1..MaxBulkRules : OptionsUpdateSettings(c)
    \/ ReceiveUpdateSettings
    \/ BgHandleMessage

SpecBulk == InitBulk /\ [][NextBulk]_vars

\* The monitoring monitor and the background while settings are saved,
\* START_MONITORING arrives, and replies and notifications travel to the tab
InitRace ==
    /\ dom \in LifeDoms
    /\ watchedNames \in LifeWatchLists
    /\ Monitoring
    /\ NoFunction

NextRace ==
    \/ HandleStartMonitoring
    \/ BgGetSettings
    \/ \E names \in LifeWatchLists : BgUpdateSettings(names)
    \/ ReceiveUpdateSettings
    \/ ReceiveSettings
    \/ BgHandleMessage

SpecRace == InitRace /\ [][NextRace]_vars

\* The two extraction strategies on every table and watchlist of the bounds
InitStrategy ==
    /\ dom \in Tables({0})
    /\ watchedNames \in StrategyWatchLists
    /\ Monitoring
    /\ fnIn = [extractedName |-> << >>, watchedName |-> Rule(1, << >>, FALSE, FALSE)]
    /\ fnOut = [done |-> FALSE]

NextStrategy ==
    \/ ApplyStrategies
    \/ ResetStrategies

SpecStrategy == InitStrategy /\ [][NextStrategy]_vars

\* The side panel opened and closed while the content script monitors
InitPanel ==
    /\ dom \in LifeDoms
    /\ watchedNames \in LifeWatchLists
    /\ Monitoring
    /\ NoFunction

NextPanel ==
    \/ \E names \in LifeWatchLists : HandleUpdateSettings(names)
    \/ \E d \in LifeDoms : DomChange(d)
    \/ BgHandleMessage
    \/ PanelOpen
    \/ PanelInitialized
    \/ PanelInitFailed
    \/ PanelReceive
    \/ PanelAutoRefresh
    \/ PanelClose

SpecPanel == InitPanel /\ [][NextPanel]_vars

----------------------------------------------------------------------------
(* Properties of checkNameMatch (SpecMatch) *)

\* t is s without its leading and trailing whitespace
IsTrimOf(t, s) ==
    /\ t = << >> \/ (~IsSpace(t[1]) /\ ~IsSpace(t[Len(t)]))
    /\ \E i \in 0..Len(s) :
          /\ i + Len(t) <= Len(s)
          /\ SubSeq(s, i + 1, i + Len(t)) = t
          /\ \A k \in 1..Len(s) : (k <= i \/ k > i + Len(t)) => IsSpace(s[k])

Trimmed(s) == CHOOSE t \in Strings(Chars, Len(s)) : IsTrimOf(t, s)

\* b occurs in a, letters compared without their case
ContainsIgnoringCase(a, b) ==
    \E i \in 0..(Len(a) - Len(b)) :
        \A k \in 1..Len(b) : LowerChar(a[i + k]) = LowerChar(b[k])

\* C9: for an enabled rule with exactMatch = true, checkNameMatch is true
\* exactly when the observed name and the rule name, each without its leading
\* and trailing whitespace, are the same string, letter case included.
C9_ExactMatch ==
    (fnOut.done /\ fnIn.watchedName.enabled /\ fnIn.watchedName.exactMatch)
        => (fnOut.value <=> (Trimmed(fnIn.extractedName) = Trimmed(fnIn.watchedName.name)))

\* an exact rule matched a name that differs from it in whitespace only
C9_Witness ==
    /\ fnOut.done
    /\ fnOut.value
    /\ fnIn.watchedName.enabled
    /\ fnIn.watchedName.exactMatch
    /\ Len(fnIn.watchedName.name) > Len(Trimmed(fnIn.watchedName.name))
    /\ Len(fnIn.extractedName) > Len(Trimmed(fnIn.extractedName))
    /\ fnIn.extractedName # fnIn.watchedName.name

\* C10: for an enabled rule with exactMatch = false, checkNameMatch is true
\* exactly when the trimmed observed name contains the trimmed rule name,
\* letters compared without their case.
C10_PartialMatch ==
    (fnOut.done /\ fnIn.watchedName.enabled /\ ~fnIn.watchedName.exactMatch)
        => (fnOut.value <=> ContainsIgnoringCase(Trimmed(fnIn.extractedName),
                                                 Trimmed(fnIn.watchedName.name)))

\* a partial rule matched a longer name that differs from it in letter case
C10_Witness ==
    /\ fnOut.done
    /\ fnOut.value
    /\ fnIn.watchedName.enabled
    /\ ~fnIn.watchedName.exactMatch
    /\ Trimmed(fnIn.watchedName.name) # << >>
    /\ Len(Trimmed(fnIn.extractedName)) > Len(Trimmed(fnIn.watchedName.name))
    /\ ~includes(fnIn.extractedName, Trimmed(fnIn.watchedName.name))

----------------------------------------------------------------------------
(* Properties of a scan (SpecScan) *)

Range(f) == {f[i] : i \in DOMAIN f}

\* the status updates among the messages of the last firing of the timer
FiredStatuses == {m \in Range(fired.sent) : IsStatus(m)}

\* the rule of the current watchlist with the id
RuleOf(id) == CHOOSE r \in Range(watchedNames) : r.id = id

\* C1: the status list emitted by a scan holds exactly one record per enabled
\* rule of the current watchlist, in the order of the watchlist, and no record
\* for a disabled rule, whatever the page and whichever strategy extracted it.
C1_OneRecordPerEnabledRule ==
    \A m \in FiredStatuses :
        /\ \A r \in Range(watchedNames) :
              r.enabled =>
                  Cardinality({k \in 1..Len(m.statuses) :
                                  m.statuses[k].watchedNameId = r.id}) = 1
        /\ \A k \in 1..Len(m.statuses) :
              \E r \in Range(watchedNames) :
                  r.id = m.statuses[k].watchedNameId /\ r.enabled
        /\ \A k, l \in 1..Len(m.statuses) :
              k < l => m.statuses[k].watchedNameId < m.statuses[l].watchedNameId

\* the indexed strategy scanned a table for a watchlist whose first rule is
\* disabled and whose second rule is enabled: one record, for the second rule
C1_Witness ==
    /\ useEfficientSearch(rightElements(dom))
    /\ Len(watchedNames) = 2
    /\ ~watchedNames[1].enabled
    /\ watchedNames[2].enabled
    /\ \E m \in FiredStatuses :
          /\ Len(m.statuses) = 1
          /\ m.statuses[1].watchedNameId = 2
          /\ m.statuses[1].found

\* the entries a scan of a table observed are the ones it cached
Observed == lastScanResults

\* C2: the record of an enabled rule is built from the first observed entry,
\* in extraction order, that the rule matches: found is true and matchedName
\* and hasRight are that entry's; no entry matching, found is false.
C2_FirstMatchingEntry ==
    (dom.table /\ ~dom.emptyState /\ ~dom.apiThrows) =>
        \A m \in FiredStatuses :
            \A k \in 1..Len(m.statuses) :
                LET st == m.statuses[k]
                    hits == {i \in 1..Len(Observed) :
                                checkNameMatch(Observed[i].name, RuleOf(st.watchedNameId))}
                IN  IF hits = {} THEN ~st.found
                    ELSE /\ st.found
                         /\ \E i \in hits :
                               /\ \A j \in hits : i <= j
                               /\ st.matchedName = Observed[i].name
                               /\ st.hasRight = Observed[i].hasRight

\* a rule matches two observed entries that differ: the record is the first's
C2_Witness ==
    /\ dom.table
    /\ Len(Observed) = 2
    /\ Observed[1] # Observed[2]
    /\ watchedNames # << >>
    /\ checkNameMatch(Observed[1].name, watchedNames[1])
    /\ checkNameMatch(Observed[2].name, watchedNames[1])
    /\ \E m \in FiredStatuses :
          /\ m.statuses[1].found
          /\ m.statuses[1].matchedName = Observed[1].name
          /\ m.statuses[1].hasRight = Observed[1].hasRight

\* C7: a scan that fails at the top level, a DOM API throwing outside the
\* processing of a row, emits an error message and no status update.
C7_FailedScanEmitsNoStatus ==
    (dom.apiThrows /\ fired.isMonitoring) =>
        /\ \E m \in Range(fired.sent) : m.type = "ERROR"
        /\ FiredStatuses = {}

----------------------------------------------------------------------------
(* Properties of the two strategies (SpecStrategy) *)

\* C6: for a page and a watchlist, rule names with leading or trailing
\* whitespace, mixed case and disabled rules included, the rows extracted by
\* the linear and by the indexed strategy give the same status records.
C6_StrategiesAgree ==
    fnOut.done => fnOut.linear = fnOut.indexed

----------------------------------------------------------------------------
(* Properties of the debounced rescans and of stopping (Spec) *)

\* the number of status updates among the messages
StatusCount(msgs) == Cardinality({i \in 1..Len(msgs) : IsStatus(msgs[i])})

\* C3: while monitoring is active, a relevant batch delivered to the observer
\* is followed by a scan when the debounce timer fires, whatever batches
\* arrived after it within the debounce window: it is coalesced, never dropped.
C3_RelevantBatchScanned ==
    (fired.isMonitoring /\ \E i \in 1..Len(fired.window) :
                              fired.window[i].relevant /\ fired.window[i].active)
        => StatusCount(fired.sent) >= 1

\* C4 as stated: the relevant batches delivered before the timer fires trigger
\* exactly one scan when it fires.
C4_OneScanPerWindowAlways ==
    (fired.window # << >> /\ \A i \in 1..Len(fired.window) : fired.window[i].relevant)
        => StatusCount(fired.sent) = 1

\* C4: one timer at most is armed, and when it fires while monitoring is
\* active, the N >= 1 relevant batches delivered before it fired have
\* triggered exactly one scan: one status update is emitted, not N.
C4_OneScanPerWindow ==
    /\ Cardinality(DOMAIN timeouts) <= 1
    /\ (fired.isMonitoring /\ fired.window # << >>
          /\ \A i \in 1..Len(fired.window) : fired.window[i].relevant)
        => StatusCount(fired.sent) = 1

\* the timer fired after two relevant batches and one status update was emitted
C4_Witness ==
    /\ fired.isMonitoring
    /\ Len(fired.window) >= 2
    /\ \A i \in 1..Len(fired.window) : fired.window[i].relevant
    /\ StatusCount(fired.sent) = 1

\* the messages the step sends
NewMessages ==
    IF Len(bgInbox') > Len(bgInbox)
    THEN SubSeq(bgInbox', Len(bgInbox) + 1, Len(bgInbox'))
    ELSE << >>

\* C5: the step that handles STOP_MONITORING leaves no debounce timer armed
\* and no observer attached, and from then until START_MONITORING is handled
\* again no step emits a status update or re-arms either, whatever DOM
\* changes, timer firings, settings replies or UPDATE_SETTINGS arrive.
C5_StoppedStaysQuiet ==
    [][stopped' =>
          /\ ~isMonitoring'
          /\ observer' = "null"
          /\ DOMAIN timeouts' = {}
          /\ throttleTimer' = 0
          /\ StatusCount(NewMessages) = 0]_vars

\* stopped while the settings of a START_MONITORING were still awaited, after
\* a debounce timer had been armed, and with a watchlist to scan for
C5_Witness ==
    /\ stopped
    /\ nextTimeoutId > 1
    /\ watchedNames # << >>
    /\ csLoad > 0
    /\ ~dom.emptyState

----------------------------------------------------------------------------
(* Properties of the side panel (SpecPanel) *)

\* C8: a status update accepted by the background is reflected in the open
\* side panel's monitorState: once the panel has initialised and no message
\* is in flight any more, it shows the state the background holds.
C8_PanelReflectsAccepted ==
    (panelPc = "ready" /\ bgInbox = << >> /\ panelInbox = << >>)
        => panelState = currentState

----------------------------------------------------------------------------
(* The name matcher on disabled and on empty rules *)

\* C11: for a rule with enabled = false, checkNameMatch is false for every
\* observed name, a name identical to the rule's own name included.
C11_DisabledNeverMatches ==
    (fnOut.done /\ ~fnIn.watchedName.enabled) => ~fnOut.value

\* a disabled exact rule was compared with its own, non-empty name
C11_Witness ==
    /\ fnOut.done
    /\ ~fnOut.value
    /\ ~fnIn.watchedName.enabled
    /\ fnIn.watchedName.exactMatch
    /\ fnIn.extractedName = fnIn.watchedName.name
    /\ Trimmed(fnIn.watchedName.name) # << >>

\* C12: a rule whose name is empty after trimming matches no observed name,
\* with exactMatch = true and with exactMatch = false alike.
C12_EmptyRuleNeverMatches ==
    (fnOut.done /\ Trimmed(fnIn.watchedName.name) = << >>) => ~fnOut.value

----------------------------------------------------------------------------
(* The status classifier *)

\* the part of s from position from to position to is zero or more spaces
\* followed by one or more digits; Channel is the number those digits write
IsChannel(s, from, to) ==
    \E k \in from..to :
        /\ \A j \in from..(k - 1) : s[j] = " "
        /\ \A j \in k..to : s[j] \in Digits

Channel(s, from, to) ==
    Number(SubSeq(s, CHOOSE k \in from..to : \A j \in k..to : s[j] \in Digits /\
                                              (k = from \/ s[k - 1] \notin Digits), to))

\* the whole of s is "rgb(r,g,b)", spaces allowed after the commas only, and
\* each of r, g, b is at least 240
IsNearWhiteRgb(s) ==
    /\ Len(s) >= 10
    /\ SubSeq(s, 1, 4) = << "r", "g", "b", "(" >>
    /\ s[Len(s)] = ")"
    /\ \E p, q \in 6..(Len(s) - 2) :
          /\ p < q
          /\ s[p] = "," /\ s[q] = ","
          /\ \A j \in 5..(p - 1) : s[j] \in Digits
          /\ IsChannel(s, p + 1, q - 1)
          /\ IsChannel(s, q + 1, Len(s) - 1)
          /\ Channel(s, 5, p - 1) >= 240
          /\ Channel(s, p + 1, q - 1) >= 240
          /\ Channel(s, q + 1, Len(s) - 1) >= 240

\* C13: isWhiteBackground is true exactly when the text is an rgb(r,g,b) form,
\* with or without spaces after the commas, whose three channels are all at
\* least 240, or the literal text white; for every other text it is false.
C13_WhiteIffNearWhiteRgbOrWhite ==
    fnOut.done =>
        (fnOut.value <=> (IsNearWhiteRgb(fnIn.backgroundColor)
                             \/ fnIn.backgroundColor = << "w", "h", "i", "t", "e" >>))

----------------------------------------------------------------------------
(* The extraction *)

\* the page is one whose rows the extraction goes through
Scanned(d) == ~d.apiThrows /\ ~d.emptyState /\ d.table

\* the row has a name element whose text is not blank
Named(r) == r.nameEl /\ Trimmed(r.text) # << >>

\* reading the row's background fails
Unreadable(r) == Named(r) /\ r.styleThrows

\* the row's name passes the pre-filter of the indexed strategy, where that
\* strategy is the one used
Admitted(d, names, r) ==
    \/ Len(rightElements(d)) <= EFFICIENT_SEARCH_THRESHOLD
    \/ isNameMatchedEfficient(Trimmed(r.text), watchedNameSet(names), partialMatchNames(names))

\* the entries of the rows at the positions E of the table, in DOM order
EntriesOf(d, E) ==
    [k \in 1..Cardinality(E) |->
        LET r == rightElements(d)[CHOOSE i \in E : Cardinality({j \in E : j <= i}) = k]
        IN  [name |-> Trimmed(r.text), hasRight |-> (r.bg = White)]]

\* C14: extractAnswerRights returns the empty list, and goes through no row,
\* whenever the empty-state marker is present, a populated rows table being
\* present or not, and whenever the rows table is absent.
C14_EmptyStateOrNoTable ==
    (fnOut.done /\ ~dom.apiThrows /\ (dom.emptyState \/ ~dom.table))
        => (fnOut.value.results = << >> /\ fnOut.value.errors = << >>)

\* the empty state was shown together with a table holding a named row and a
\* row whose style cannot be read
C14_Witness ==
    /\ fnOut.done
    /\ dom.emptyState /\ dom.table
    /\ \E i, j \in 1..Len(dom.rows) :
          /\ Named(dom.rows[i]) /\ ~dom.rows[i].styleThrows
          /\ Unreadable(dom.rows[j])
    /\ fnOut.value.results = << >>

\* C15 as stated: a row without name element or with a blank name contributes
\* no entry, and every other row of the table, its style being readable, is
\* extracted, in DOM order, with its own trimmed name and its own hasRight.
C15_EveryNamedRowExtracted ==
    (fnOut.done /\ Scanned(dom)
        /\ \A i \in 1..Len(rightElements(dom)) : ~Unreadable(rightElements(dom)[i]))
        => fnOut.value.results =
               EntriesOf(dom, {i \in 1..Len(rightElements(dom)) : Named(rightElements(dom)[i])})

\* C15 amended: the same, where under the indexed strategy (more than 50 rows)
\* the other rows extracted are those whose name passes the watchlist
\* pre-filter.
C15_AdmittedNamedRowsExtracted ==
    (fnOut.done /\ Scanned(dom)
        /\ \A i \in 1..Len(rightElements(dom)) : ~Unreadable(rightElements(dom)[i]))
        => fnOut.value.results =
               EntriesOf(dom, {i \in 1..Len(rightElements(dom)) :
                                  /\ Named(rightElements(dom)[i])
                                  /\ Admitted(dom, watchedNames, rightElements(dom)[i])})

\* a row without name element and a row with a blank name stood before two
\* named rows, and the two were extracted
C15_Witness ==
    /\ fnOut.done
    /\ Scanned(dom)
    /\ Len(dom.rows) = 3
    /\ \/ ~dom.rows[1].nameEl
       \/ (dom.rows[1].nameEl /\ ~Named(dom.rows[1]))
    /\ Named(dom.rows[2]) /\ ~dom.rows[2].styleThrows
    /\ Named(dom.rows[3]) /\ ~dom.rows[3].styleThrows
    /\ dom.rows[2] # dom.rows[3]
    /\ Len(fnOut.value.results) = 2

\* C16: when going through one row throws, the extraction itself does not
\* throw and only that row is missing: the result holds the entries of the
\* rows gone through without failure, before and after it, in DOM order.
C16_ThrowingRowOnlyMissing ==
    (fnOut.done /\ Scanned(dom)
        /\ \E i \in 1..Len(rightElements(dom)) : Unreadable(rightElements(dom)[i]))
        => /\ fnOut.value.cached
           /\ DomExtractError \notin Range(fnOut.value.errors)
           /\ fnOut.value.results =
                 EntriesOf(dom, {i \in 1..Len(rightElements(dom)) :
                                    /\ Named(rightElements(dom)[i])
                                    /\ ~rightElements(dom)[i].styleThrows
                                    /\ Admitted(dom, watchedNames, rightElements(dom)[i])})

\* an unreadable row stood between two named rows, and the two were extracted
C16_Witness ==
    /\ fnOut.done
    /\ Scanned(dom)
    /\ Len(dom.rows) = 3
    /\ Named(dom.rows[1]) /\ ~dom.rows[1].styleThrows
    /\ Unreadable(dom.rows[2])
    /\ Named(dom.rows[3]) /\ ~dom.rows[3].styleThrows
    /\ Len(fnOut.value.results) = 2
    /\ fnOut.value.results[1].name = Trimmed(dom.rows[1].text)
    /\ fnOut.value.results[2].name = Trimmed(dom.rows[3].text)

----------------------------------------------------------------------------
(* The change filter *)

\* the node is an element that carries one of the four watched classes
CarriesMarker(n) ==
    /\ n.element
    /\ \E c \in n.classes :
          c \in {"_rights-table_1treo_151", "_right_1treo_151", "_name_1treo_160",
                 "ui-empty-state"}

\* the node is an element with a descendant that carries one of them
HoldsMarker(n) ==
    /\ n.element
    /\ \E c \in n.inner :
          c \in {"_rights-table_1treo_151", "_right_1treo_151", "_name_1treo_160",
                 "ui-empty-state"}

\* C17: isRelevantChange is true exactly when the record is a childList
\* mutation with an added or removed element that carries a watched class or
\* has a descendant carrying one, or an attributes mutation whose target
\* element itself carries a watched class; it is false for every other record.
C17_RelevantExactly ==
    fnOut.done =>
        (fnOut.value <=>
            LET m == fnIn.mutation
            IN  \/ /\ m.type = "childList"
                   /\ \E n \in Range(m.addedNodes) \cup Range(m.removedNodes) :
                         CarriesMarker(n) \/ HoldsMarker(n)
                \/ /\ m.type = "attributes"
                   /\ CarriesMarker(m.target))

\* a childList record was found relevant for a removed element that carries
\* no watched class itself but has a descendant carrying one, the added nodes
\* being a text node and an element with an unrelated class
C17_Witness ==
    /\ fnOut.done
    /\ fnOut.value
    /\ fnIn.mutation.type = "childList"
    /\ Len(fnIn.mutation.addedNodes) = 2
    /\ \A n \in Range(fnIn.mutation.addedNodes) : ~CarriesMarker(n) /\ ~HoldsMarker(n)
    /\ \E n \in Range(fnIn.mutation.addedNodes) : ~n.element
    /\ \E n \in Range(fnIn.mutation.removedNodes) : ~CarriesMarker(n) /\ HoldsMarker(n)

----------------------------------------------------------------------------
(* The DOM observer *)

\* C18: at most one DOM observer of the monitor is connected at any time, and
\* it is the monitor's current one: starting the observer when one is already
\* started disconnects the previous observer first.
C18_OneObserverConnected ==
    /\ connected <= 1
    /\ connected = 1 <=> observer \in {"table", "body"}

\* the monitor began with an observer on the table and, never stopped, now has
\* one on the body: startDOMObserver ran while an observer was connected
C18_Witness ==
    /\ ~stopped
    /\ observer = "body"
    /\ connected = 1

----------------------------------------------------------------------------
(* The emitted status records *)

\* C19: in every emitted status list a record with found = false has an empty
\* matchedName and hasRight = false, so that hasRight = true implies found =
\* true; and when the extraction yields no entries every record, one per
\* enabled rule, has found = false.
C19_NotFoundIsBlank ==
    \A m \in FiredStatuses :
        /\ \A k \in 1..Len(m.statuses) :
              /\ ~m.statuses[k].found =>
                    (m.statuses[k].matchedName = << >> /\ ~m.statuses[k].hasRight)
              /\ m.statuses[k].hasRight => m.statuses[k].found
        /\ (dom.apiThrows \/ dom.emptyState \/ ~dom.table \/ lastScanResults = << >>) =>
              /\ Len(m.statuses) = Cardinality({r \in Range(watchedNames) : r.enabled})
              /\ \A k \in 1..Len(m.statuses) : ~m.statuses[k].found

\* a scan of a table emitted a record with found and hasRight true for one
\* rule and a blank record for another
C19_Witness ==
    /\ lastScanResults # << >>
    /\ \E m \in FiredStatuses :
          /\ Len(m.statuses) = 2
          /\ m.statuses[1].found /\ m.statuses[1].hasRight
          /\ ~m.statuses[2].found
          /\ m.statuses[2].matchedName = << >>

----------------------------------------------------------------------------
(* The cache of scan results *)

\* C20: at every point of a session, after any sequence of scans, cleanups,
\* stops and starts, lastScanResults holds at most MAX_SCAN_HISTORY entries.
C20_HistoryBounded == Len(lastScanResults) <= MAX_SCAN_HISTORY

----------------------------------------------------------------------------
(* The choice of the extraction strategy *)

\* the name passes the pre-filter of the indexed strategy under the watchlist:
\* it, or its lower-case form, is the name of an enabled exact-match rule or
\* the lower-case name of an enabled partial-match rule, or its lower-case form
\* contains the lower-case name of an enabled partial-match rule
PassesPreFilter(name, names) ==
    \E k \in 1..Len(names) :
        /\ names[k].enabled
        /\ IF names[k].exactMatch
           THEN name = names[k].name \/ toLowerCase(name) = names[k].name
           ELSE \/ name = toLowerCase(names[k].name)
                \/ ContainsIgnoringCase(name, names[k].name)

\* the positions of the rows with a non-blank name and a readable style
ValidRows(d) ==
    {i \in 1..Len(rightElements(d)) :
        Named(rightElements(d)[i]) /\ ~rightElements(d)[i].styleThrows}

----------------------------------------------------------------------------
(* The debounce timer *)

\* C22: at most one debounce timer of the monitor is pending at any time, and
\* it is the one armed last: a batch that arrives while a timer is pending
\* cancels that timer and arms a single new one, whatever the interleaving of
\* observer callbacks, timer firings, observer restarts and stops.
C22_OneTimerPending ==
    /\ Cardinality(DOMAIN timeouts) <= 1
    /\ \A id \in DOMAIN timeouts : id = throttleTimer

\* a third batch arrived while the timer of the second was pending, after the
\* observer had been started again on a page without the table
C22_Witness ==
    /\ observer = "body"
    /\ nextTimeoutId = 4
    /\ Len(window) >= 2
    /\ DOMAIN timeouts = {3}

----------------------------------------------------------------------------
(* The analysis of a mutation batch *)

\* C23: for a batch of any size, the debounce timer's firing rescans (the
\* analysis reports shouldRescan) if and only if at least one record of the
\* batch is relevant, also when more than 10 relevant records end the analysis
\* early; a batch without a relevant record triggers no scan.
C23_RescanIffSomeRelevant ==
    (DOMAIN timeouts = {}) =>
        ((\E m \in Range(fired.sent) : IsStatus(m))
            <=> (\E i \in 1..Len(fnIn.mutations) : isRelevantChange(fnIn.mutations[i])))

\* the timer of a batch of twelve records, an irrelevant one followed by
\* eleven relevant ones, fired and a scan was emitted
C23_Witness ==
    /\ DOMAIN timeouts = {}
    /\ Len(fnIn.mutations) = 12
    /\ ~isRelevantChange(fnIn.mutations[1])
    /\ \A i \in 2..12 : isRelevantChange(fnIn.mutations[i])
    /\ \E m \in Range(fired.sent) : IsStatus(m)

----------------------------------------------------------------------------
(* The entries of the indexed strategy *)

\* C24: in the indexed strategy (more than 50 rows) every entry of the
\* extraction result has a name that checkNameMatch accepts for at least one
\* enabled rule of the watchlist; a row that no enabled rule matches is not
\* returned.
C24_IndexedEntriesMatchSomeRule ==
    (fnOut.done /\ Scanned(dom) /\ Len(rightElements(dom)) > EFFICIENT_SEARCH_THRESHOLD) =>
        \A k \in 1..Len(fnOut.value.results) :
            \E i \in 1..Len(watchedNames) :
                /\ watchedNames[i].enabled
                /\ checkNameMatch(fnOut.value.results[k].name, watchedNames[i])

----------------------------------------------------------------------------
(* Error reports of a scan *)

\* C25: an error while going through one row never causes an ERROR message:
\* the ERROR messages of a scan are those of a failure of the extraction as a
\* whole, under the linear and under the indexed strategy.
C25_RowErrorNotReported ==
    \A m \in Range(fired.sent) :
        m.type = "ERROR" => m.category \in {DomExtractError, ScanError}

----------------------------------------------------------------------------
(* Failure of a scan *)

\* the step fires a debounce timer whose batch is relevant
FiresRelevant ==
    \E id \in DOMAIN timeouts :
        /\ id \notin DOMAIN timeouts'
        /\ nextTimeoutId' = nextTimeoutId
        /\ throttleTimer' = throttleTimer
        /\ analyzeMutations(timeouts[id]).shouldRescan

----------------------------------------------------------------------------
(* Failure of the hand-off of a status update *)

\* the step takes the oldest status update out of the messages in flight
\* without the background accepting it
RejectedStep ==
    /\ bgInbox # << >>
    /\ IsStatus(Head(bgInbox))
    /\ currentState # handleStatusUpdate(currentState, Head(bgInbox))
    /\ currentState' = currentState
    /\ bgInbox' \in {Tail(bgInbox), Tail(bgInbox) \o << ErrorMsg(MessagingError) >>}

\* C27: when chrome.runtime.sendMessage rejects for a status update, the
\* monitor's state (isMonitoring, watchlist, observer, timer) is left as it
\* was and no error report is sent; scans triggered later while monitoring
\* still emit their status update.
C27_RejectedSendHarmless ==
    [][/\ RejectedStep =>
              /\ bgInbox' = Tail(bgInbox)
              /\ isMonitoring' = isMonitoring
              /\ watchedNames' = watchedNames
              /\ observer' = observer /\ connected' = connected
              /\ throttleTimer' = throttleTimer /\ timeouts' = timeouts
              /\ memoryCleanupTimer' = memoryCleanupTimer
       /\ (isMonitoring /\ FiresRelevant) => StatusCount(NewMessages) = 1]_vars

\* the status update of a timer-triggered scan was rejected (the background
\* has accepted none), and a later scan has its status update in flight
C27_Witness ==
    /\ currentState = MonitorState(<< >>, FALSE)
    /\ StatusCount(fired.sent) = 1
    /\ isMonitoring
    /\ bgInbox # << >>
    /\ \A m \in Range(bgInbox) : IsStatus(m) /\ m \notin Range(fired.sent)

----------------------------------------------------------------------------
(* UPDATE_SETTINGS *)

\* C28: the step that handles UPDATE_SETTINGS with a payload leaves the
\* monitor with the payload's watchedNames as its watchlist (the empty list
\* when the payload has none), nothing of the previous list retained; when
\* monitoring is active the same step, no debounce timer armed or awaited,
\* emits one status update whose records are those of the enabled rules of the
\* new list, and when it is not active the step emits nothing.
C28_UpdateReplacesAndScans ==
    [][(stopped' = stopped /\ Len(bgInbox') >= Len(bgInbox)) =>
          /\ watchedNames' = IF "watchedNames" \in DOMAIN fnIn.payload
                             THEN fnIn.payload.watchedNames
                             ELSE << >>
          /\ \A i \in 1..Len(watchedNames') : watchedNames'[i].id \notin {8, 9}
          /\ timeouts' = timeouts /\ throttleTimer' = throttleTimer
          /\ IF isMonitoring
             THEN /\ Len(NewMessages) = 1
                  /\ IsStatus(NewMessages[1])
                  /\ Len(NewMessages[1].statuses) =
                        Cardinality({i \in 1..Len(watchedNames') : watchedNames'[i].enabled})
                  /\ \A k \in 1..Len(NewMessages[1].statuses) :
                        \E i \in 1..Len(watchedNames') :
                            /\ watchedNames'[i].enabled
                            /\ watchedNames'[i].id = NewMessages[1].statuses[k].watchedNameId
             ELSE NewMessages = << >>]_vars

\* the monitor, which began with the rules 8 and 9, holds the two rules of the
\* payload, one of them disabled, and the status update in flight has the
\* record of the enabled one only
C28_Witness ==
    /\ "watchedNames" \in DOMAIN fnIn.payload
    /\ watchedNames = fnIn.payload.watchedNames
    /\ Len(watchedNames) = 2
    /\ watchedNames[1].enabled /\ ~watchedNames[2].enabled
    /\ bgInbox # << >>
    /\ IsStatus(bgInbox[1])
    /\ Len(bgInbox[1].statuses) = 1
    /\ bgInbox[1].statuses[1].watchedNameId = 1

----------------------------------------------------------------------------
(* UPDATE_SETTINGS during a settings load *)

\* C29: a watchlist delivered by UPDATE_SETTINGS while a GET_SETTINGS of the
\* monitor is in flight is not overwritten by the older snapshot the load
\* returns: once no load and no notification is in flight any more, the
\* monitor's watchlist is the most recently saved one.
C29_LoadKeepsNewerWatchlist ==
    (csLoad = 0 /\ csInbox = << >>) => watchedNames = settings

----------------------------------------------------------------------------
(* Structural changes of the page under the observer *)

\* a step in which the empty-state marker appears or the rows table goes away
StructuralStep ==
    \/ ~dom.emptyState /\ dom'.emptyState
    \/ dom.table /\ ~dom'.table

\* C30: while monitoring is active, every appearance of the empty-state marker
\* and every removal of the rows table is observed, whether the observer was
\* attached to the table or to the body: the step arms a new debounce timer
\* whose batch makes handleDOMChangesOptimized rescan.
C30_StructuralChangeObserved ==
    [][(isMonitoring /\ observer \in {"table", "body"} /\ StructuralStep)
          => /\ throttleTimer' # throttleTimer
             /\ throttleTimer' \in DOMAIN timeouts'
             /\ analyzeMutations(timeouts'[throttleTimer']).shouldRescan]_vars

----------------------------------------------------------------------------
(* Status updates and the monitoring flag *)

\* C31: no step emits a status update while isMonitoring is false (the scan
\* of initialize, before any START_MONITORING, emits nothing), and every
\* status update that is emitted carries isActive = true.
C31_StatusOnlyWhileMonitoring ==
    [][\A i \in 1..Len(NewMessages) :
          IsStatus(NewMessages[i]) => isMonitoring /\ NewMessages[i].isActive]_vars

\* a status update of the initialized monitor is in flight
C31_Witness ==
    /\ csPc = "ready"
    /\ \E i \in 1..Len(bgInbox) : IsStatus(bgInbox[i]) /\ bgInbox[i].isActive

----------------------------------------------------------------------------
(* Observation after a restart *)

\* C32: after STOP_MONITORING followed by START_MONITORING the DOM is observed
\* again, so that a relevant change after the restart reaches the observer's
\* callback and is followed by a scan and a status update: whenever the
\* initialized monitor is monitoring, its MutationObserver is attached.
C32_ObservingWhileMonitoring ==
    (csPc = "ready" /\ isMonitoring) => observer \in {"table", "body"}

----------------------------------------------------------------------------
(* The reply to START_MONITORING *)

\* C33: when the content script replies {success: true} to START_MONITORING
\* (the step in which startMonitoring resumes after its settings load and
\* handleMessage returns) and no STOP_MONITORING was handled since the start,
\* isMonitoring is true at the reply, also when the settings load failed.
C33_StartReplyMeansMonitoring ==
    [][(/\ csLoad' < csLoad
        /\ ~stopped
        /\ handleMessageReply("START_MONITORING") = [success |-> TRUE])
          => isMonitoring']_vars

----------------------------------------------------------------------------
(* Bulk enable / disable on the options page *)

\* C34: once every per-name update issued by 'enable all' (or 'disable all')
\* has completed, every watched name of the saved settings is enabled (or
\* disabled): no update is lost through the read-then-write of the whole list.
C34_BulkAppliesToAll ==
    (/\ optionsCalls # << >>
     /\ \A c \in 1..Len(optionsCalls) : optionsCalls[c].pc = "done")
        => \A i \in 1..Len(settings) : settings[i].enabled = optionsCalls[1].updates.enabled

----------------------------------------------------------------------------
(* Settlement of the side panel's requests *)

\* C35: every request of MessagingService.sendMessage is settled at most once,
\* by its response, a runtime error, its timeout or cleanup; until then it has
\* its entry in pendingMessages and its live timeout (which settles it at the
\* latest), afterwards it has neither; a response that arrives after the
\* timeout or after cleanup changes nothing of this.
C35_SettlesOnce ==
    \A id \in 1..messaging.messageId :
        /\ Len(messaging.settled[id]) <= 1
        /\ Len(messaging.settled[id]) = 0
              => id \in messaging.pendingMessages /\ id \in messaging.timeouts
        /\ Len(messaging.settled[id]) = 1
              => /\ id \notin messaging.pendingMessages /\ id \notin messaging.timeouts
                 /\ messaging.settled[id][1] \in
                       {"timeout", "cleanup", "lastError", "responseError", "response"}
                 /\ messaging.settled[id][1] \in {"lastError", "responseError", "response"}
                       => id \notin messaging.callbacks

\* requests settled by timeout, by cleanup and by a response, the responses
\* of the first two having arrived afterwards
C35_Witness ==
    /\ messaging.messageId = 3
    /\ messaging.callbacks = {}
    /\ \E a, b, c \in 1..3 :
          /\ messaging.settled[a] = << "timeout" >>
          /\ messaging.settled[b] = << "cleanup" >>
          /\ messaging.settled[c] = << "response" >>

----------------------------------------------------------------------------
(* STOP_MONITORING in the background *)

\* C36: once STOP_MONITORING has been processed by the background and by the
\* content script and no message is in flight any more, currentState.isActive
\* and the saved monitor state's isActive are false: a status update sent
\* before the stop does not leave them true.
C36_StoppedMeansInactive ==
    (bgStop = "done" /\ bgInbox = << >>)
        => ~currentState.isActive /\ ~storedState.isActive

----------------------------------------------------------------------------
(* The two validators *)

\* C37: settings that the background's validateSettings accepts and stores are
\* accepted by SettingsValidator.isValidSettings too, so the side panel's
\* sanitizeSettings gives the stored watched names, never the defaults instead.
C37_StoredSettingsLoad ==
    (fnOut.done /\ fnOut.value.success)
        => /\ isValidSettings(fnOut.value.stored)
           /\ fnOut.value.loaded.watchedNames = fnOut.value.stored.watchedNames

----------------------------------------------------------------------------
(* A rejected settings update in the side panel *)

\* C38: when the background rejects a settings update (success: false with
\* validation errors), the side panel's AppStore keeps its previous settings
\* and records an error; it does not take the rejected settings as current.
C38_RejectedUpdateKeepsSettings ==
    (fnOut.done /\ ~fnOut.value.response.success)
        => /\ fnOut.value.state.settings = fnOut.value.previous
           /\ fnOut.value.state.error # "null"

====
